---- MODULE Spec2Model ----
(***************************************************************************)
(* Model of rookpkg's atomic installation engine                          *)
(* (src/rookpkg/src/transaction.rs) over the package database             *)
(* (src/rookpkg/src/database.rs).                                         *)
(*                                                                         *)
(* The root filesystem is a map from a small universe of paths to a node  *)
(* ("absent", "dir" or the content of a regular file).  The database is   *)
(* the three relations packages, files and dependencies with SQLite's     *)
(* rowid allocation and its foreign-key switch.  A transaction is the     *)
(* in-memory object of one process plus its directory on disk.            *)
(*                                                                         *)
(* Around the engine: the repository manager's update of the repositories  *)
(* (src/rookpkg/src/repository.rs) and the install command                 *)
(* (src/rookpkg/src/cli/install.rs), which resolves the requested names    *)
(* over the repository indices, downloads and verifies the packages and    *)
(* hands the install operations to the engine; the verification of a       *)
(* fetched index against the key directories, the lookup of a package      *)
(* across the repositories, and the loading of the user's signing key      *)
(* (src/rookpkg/src/signing.rs).                                           *)
(***************************************************************************)
EXTENDS Integers, Sequences, FiniteSets, TLC

(***************************************************************************)
(* Bounds of the model.                                                    *)
(***************************************************************************)
MaxOps == 2
MaxTx == 2
NProcs == 2
MaxRepos == 3
MaxRuns == 2
MaxCalls == 4

(***************************************************************************)
(* The universe: package names, hooks, paths.                              *)
(***************************************************************************)
Pkgs == {"foo", "bar"}

Hooks == {"pre_install", "post_install", "pre_remove", "post_remove",
          "pre_upgrade", "post_upgrade"}

Absent == "absent"
Dir == "dir"

\* Every path of the universe, in the order of String::cmp (file_paths.sort()).
PathOrder == << "/", "/etc", "/etc/foo.conf", "/etc/foo.conf.new", "/opt",
                "/opt/bar", "/opt/bar/lib", "/opt/bar/lib/y", "/usr",
                "/usr/bin", "/usr/bin/x" >>

Paths == { PathOrder[i] : i \in 1..Len(PathOrder) }

PathRank(p) == CHOOSE i \in 1..Len(PathOrder) : PathOrder[i] = p

\* Path::parent
Parent(p) ==
    CASE p = "/etc" -> "/"
      [] p = "/etc/foo.conf" -> "/etc"
      [] p = "/etc/foo.conf.new" -> "/etc"
      [] p = "/opt" -> "/"
      [] p = "/opt/bar" -> "/opt"
      [] p = "/opt/bar/lib" -> "/opt/bar"
      [] p = "/opt/bar/lib/y" -> "/opt/bar/lib"
      [] p = "/usr" -> "/"
      [] p = "/usr/bin" -> "/usr"
      [] p = "/usr/bin/x" -> "/usr/bin"
      [] OTHER -> "/"

\* The hard-coded protected set of do_remove, restricted to the universe.
ProtectedDirs == {"/", "/etc", "/opt", "/usr", "/usr/bin"}

(***************************************************************************)
(* Package archives (PackageArchiveReader: read_info, read_files,          *)
(* read_scripts, extract_data).  scripts is the set of hooks whose script  *)
(* is not empty; has_scripts is read_scripts() returning Some.             *)
(***************************************************************************)
Archives == {"foo1", "foo2", "bar1"}

FileEntry(path, is_config, content) ==
    [path |-> path, is_config |-> is_config, content |-> content]

Archive(a) ==
    CASE a = "foo1" ->
           [name |-> "foo", version |-> 1,
            files |-> << FileEntry("/etc/foo.conf", TRUE, "foo1"),
                         FileEntry("/usr/bin/x", FALSE, "foo1") >>,
            has_scripts |-> TRUE,
            scripts |-> {"pre_install", "post_install", "pre_remove", "pre_upgrade"},
            depends |-> {"bar"}]
      [] a = "foo2" ->
           [name |-> "foo", version |-> 2,
            files |-> << FileEntry("/etc/foo.conf", TRUE, "foo2"),
                         FileEntry("/usr/bin/x", FALSE, "foo2"),
                         FileEntry("/opt/bar/lib/y", FALSE, "foo2") >>,
            has_scripts |-> TRUE,
            scripts |-> {"post_remove", "post_upgrade"},
            depends |-> {"bar"}]
      [] OTHER ->
           [name |-> "bar", version |-> 1,
            files |-> << FileEntry("/opt/bar/lib/y", FALSE, "bar1") >>,
            has_scripts |-> FALSE,
            scripts |-> {},
            depends |-> {}]

\* Content a user may write into a file of the root.
UserContent == "user"

(***************************************************************************)
(* Transaction data types.                                                 *)
(***************************************************************************)
TransactionState == {"Pending", "InProgress", "Completed", "RolledBack", "Failed"}

OpInstall(a) == [kind |-> "Install", package |-> Archive(a).name, archive |-> a]
OpRemove(n) == [kind |-> "Remove", package |-> n, archive |-> "none"]
OpUpgrade(a) == [kind |-> "Upgrade", package |-> Archive(a).name, archive |-> a]

NoData == [name |-> "none", version |-> 0]

\* JournalEntry; a backup path is tx_dir/backup/<pkg>/<path>, so (pkg, path) names it.
FileCreated(path) ==
    [type |-> "FileCreated", path |-> path, pkg |-> "none", data |-> NoData]
FileRemoved(path, pkg) ==
    [type |-> "FileRemoved", path |-> path, pkg |-> pkg, data |-> NoData]
FileModified(path, pkg) ==
    [type |-> "FileModified", path |-> path, pkg |-> pkg, data |-> NoData]
DirCreated(path) ==
    [type |-> "DirCreated", path |-> path, pkg |-> "none", data |-> NoData]
DbPackageAdded(pkg) ==
    [type |-> "DbPackageAdded", path |-> "none", pkg |-> pkg, data |-> NoData]
DbPackageRemoved(pkg, data) ==
    [type |-> "DbPackageRemoved", path |-> "none", pkg |-> pkg, data |-> data]

(***************************************************************************)
(* Filesystem primitives (std::fs) on a map Paths -> node.                 *)
(***************************************************************************)
Exists(f, p) == f[p] # Absent
IsDir(f, p) == f[p] = Dir
IsFile(f, p) == f[p] # Absent /\ f[p] # Dir

RECURSIVE Ancestors(_)
Ancestors(p) == IF p = "/" THEN {} ELSE {Parent(p)} \cup Ancestors(Parent(p))

\* fs::create_dir_all(d): d and every missing ancestor become directories.
CreateDirAll(f, d) ==
    [q \in Paths |-> IF q \in ({d} \cup Ancestors(d)) /\ f[q] = Absent THEN Dir ELSE f[q]]

\* fs::read_dir(d).next().is_none()
DirEmpty(f, d) == \A q \in Paths : (q # "/" /\ Parent(q) = d) => f[q] = Absent

\* fs::copy(src, dest) needs dest's parent directory; the content becomes c.
CanWrite(f, p) == IsDir(f, Parent(p)) /\ ~IsDir(f, p)
WriteFile(f, p, c) == [f EXCEPT ![p] = c]

\* fs::remove_file / fs::remove_dir
RemoveNode(f, p) == [f EXCEPT ![p] = Absent]

(***************************************************************************)
(* Database (rusqlite).  db is [packages, files, deps]:                    *)
(*   packages rows [id, name, version], name UNIQUE;                       *)
(*   files rows [package_id, path, is_config], path UNIQUE;                *)
(*   deps rows [package_id, depends_on].                                   *)
(***************************************************************************)
EmptyDb == [packages |-> {}, files |-> {}, deps |-> {}]

SetMax(S) == CHOOSE m \in S : \A x \in S : x <= m

\* last_insert_rowid of an INTEGER PRIMARY KEY without AUTOINCREMENT.
NextRowId(d) ==
    IF d.packages = {} THEN 1 ELSE SetMax({r.id : r \in d.packages}) + 1

\* Database::get_package: Some(record) iff a row with that name exists.
HasPackage(d, n) == \E r \in d.packages : r.name = n
get_package(d, n) == CHOOSE r \in d.packages : r.name = n

\* toml::to_string(&pkg) / toml::from_str: the InstalledPackage fields only
\* (no row id, no file rows, no dependency rows).
PackageToToml(r) == [name |-> r.name, version |-> r.version]
PackageFromToml(t) == [name |-> t.name, version |-> t.version]

\* Database::add_package: fails on the UNIQUE name; else inserts with a fresh id.
CanAddPackage(d, pkg) == ~HasPackage(d, pkg.name)
add_package(d, pkg) ==
    [d EXCEPT !.packages =
        @ \cup {[id |-> NextRowId(d), name |-> pkg.name, version |-> pkg.version]}]

\* Database::remove_package: DELETE FROM packages; the file and dependency
\* rows go with it only when SQLite enforces foreign keys (ON DELETE CASCADE).
remove_package(d, n, fk) ==
    LET gone == {r.id : r \in {x \in d.packages : x.name = n}}
    IN [packages |-> {r \in d.packages : r.name # n},
        files |-> IF fk THEN {r \in d.files : r.package_id \notin gone} ELSE d.files,
        deps |-> IF fk THEN {r \in d.deps : r.package_id \notin gone} ELSE d.deps]

\* Database::add_file: fails on the UNIQUE path.
CanAddFile(d, path) == \A r \in d.files : r.path # path
add_file(d, pid, fe) ==
    [d EXCEPT !.files =
        @ \cup {[package_id |-> pid, path |-> fe.path, is_config |-> fe.is_config]}]

\* Database::add_dependency
add_dependency(d, pid, dep) ==
    [d EXCEPT !.deps = @ \cup {[package_id |-> pid, depends_on |-> dep]}]

\* Database::file_owner: files JOIN packages.
HasOwner(d, path) ==
    \E f \in d.files : f.path = path /\ \E r \in d.packages : r.id = f.package_id
file_owner(d, path) ==
    (CHOOSE r \in d.packages :
        \E f \in d.files : f.path = path /\ r.id = f.package_id).name

\* Database::get_files: the paths of the package's file rows (files JOIN packages).
get_files(d, n) ==
    {f.path : f \in {x \in d.files :
        \E r \in d.packages : r.name = n /\ r.id = x.package_id}}


(***************************************************************************)
(* State.                                                                  *)
(***************************************************************************)
VARIABLES
    fs,            \* root filesystem: Paths -> node
    scripts,       \* <root>/var/lib/rookpkg/scripts/<pkg>/: [dir, sh]
    db,            \* the package database
    foreign_keys,  \* whether the SQLite build enforces foreign keys
    txdirs,        \* <root>/var/lib/rookpkg/transactions/<id>/
    now,           \* the clock Transaction::new reads
    scenario,      \* what the environment does: "sequential", "faulty", "kill"
                   \* or "concurrent", or which command runs: "update",
                   \* "verify", "install", "find", "key" or "database"
    tx,            \* per process: the Transaction object and the position in execute
    pre,           \* history, per transaction id: (fs, scripts, db) when execute
                   \* began, where execute was when the process was killed, and
                   \* whether the transaction was recovered
    repos,         \* RepoManager.repos, with each repository's cache directory
    upd,           \* RepoManager::update_all: its position and its UpdateResult
    cmd,           \* cli::install::run: its position and its locals; the
                   \* last find_package and database call of a caller
    signing        \* the user's secret key file and what load_signing_key
                   \* made of it

vars == << fs, scripts, db, foreign_keys, txdirs, now, scenario, tx, pre,
           repos, upd, cmd, signing >>

\* The state of the transaction engine and of the root it works on.
engine == << fs, scripts, db, foreign_keys, txdirs, now, scenario, tx, pre >>

AllProcs == 1..NProcs
Procs == IF scenario = "concurrent" THEN AllProcs ELSE {1}
TxIds == 1..MaxTx

NoScripts == [dir |-> FALSE, sh |-> [h \in Hooks |-> 0]]

NoBackup == [b \in Pkgs \X Paths |-> Absent]
NoJournalFile == [present |-> FALSE, complete |-> FALSE, entries |-> << >>]
NoTxDir == [exists |-> FALSE, state |-> "Pending", ops |-> << >>,
            journal |-> NoJournalFile, backup |-> NoBackup]

NoErr == [kind |-> "none", path |-> "none", owner |-> "none"]

\* A process holding no Transaction object; id remembers its last clock reading.
IdleTx(lastid) ==
    [pc |-> "idle", id |-> lastid, state |-> "Pending", ops |-> << >>,
     journal |-> << >>, i |-> 0, k |-> 0, phase |-> "none", pkg_id |-> 0,
     file_paths |-> << >>, dirs_to_check |-> {}, err |-> NoErr,
     undo_failed |-> FALSE, hooks |-> << >>, queued |-> << >>,
     executed |-> << >>, result |-> "none", resumed |-> FALSE, refused |-> FALSE]
\* result is what execute returned, "Ok" or "Err", once it has returned;
\* resumed is whether the object was made by Transaction::resume; refused is
\* history: a call of execute left through its check of the state;
\* err is the error the failed operation returned; undo_failed is history:
\* whether a call made by a rollback step returned an error; hooks is
\* history: the scripts run_script has run in the current operation; queued
\* is history: the operations in the order the caller asked for them;
\* executed is history: the operations execute_operation was called with.

NoSnapshot == [taken |-> FALSE, recovered |-> FALSE, killed_at |-> "none",
               fs |-> [q \in Paths |-> Absent],
               scripts |-> [n \in Pkgs |-> NoScripts], db |-> EmptyDb]

(***************************************************************************)
(* Repositories (repository.rs): PackageIndex, Repository, UpdateResult.   *)
(***************************************************************************)
RepoNames == {"core", "extra", "testing"}
Priorities == {1, 2}
Generations == {1, 2}

\* Option<PackageIndex>; generated is the index's timestamp.
NoIndex == [some |-> FALSE, generated |-> 0, packages |-> << >>]
PackageIndex(g, packages) == [some |-> TRUE, generated |-> g, packages |-> packages]

\* Option<RepoMetadata>; fingerprint is metadata.signing.fingerprint.
NoMeta == [some |-> FALSE, fingerprint |-> ""]
RepoMetadata(fingerprint) == [some |-> TRUE, fingerprint |-> fingerprint]

\* The public keys of the key directories and their fingerprints; NoKey is
\* Option<LoadedPublicKey>::None.
Keys == {"kA", "kB"}
NoKey == "none"
Fingerprint(key) == IF key = "kA" THEN "AB" ELSE "CB"
Fingerprints == {"AB", "CB", "B"}

\* str::ends_with on the fingerprints.
EndsWith(s, suffix) == s = suffix \/ (s \in {"AB", "CB"} /\ suffix = "B")

\* Repository::from_config followed by load_cache: metadata and index are
\* what repo.toml (cached_meta) and packages.json (cached) of the
\* repository's cache directory held.
Repository(name, priority, enabled, cached) ==
    LET meta == IF cached.some THEN RepoMetadata("AB") ELSE NoMeta
    IN [name |-> name, priority |-> priority, enabled |-> enabled,
        metadata |-> meta, index |-> cached, public_key |-> NoKey,
        cached_meta |-> meta, cached |-> cached]

\* UpdateResult::default
EmptyResult == [updated |-> << >>, unchanged |-> << >>, failed |-> << >>]

\* UpdateResult::total
total(result) == Len(result.updated) + Len(result.unchanged) + Len(result.failed)

\* Config.signing: allow_untrusted and the public keys found in
\* master_keys_dir and packager_keys_dir.
SigningConfig(allow_untrusted, master_keys, packager_keys) ==
    [allow_untrusted |-> allow_untrusted, master_keys |-> master_keys,
     packager_keys |-> packager_keys]

\* What the server returned for packages.json: nothing (the fetch failed),
\* bytes that do not parse, or the bytes of an index.
NoBytes == [fetched |-> FALSE, parses |-> FALSE, index |-> NoIndex]
Garbage == [fetched |-> TRUE, parses |-> FALSE, index |-> NoIndex]
Json(index) == [fetched |-> TRUE, parses |-> TRUE, index |-> index]

\* What the server returned for packages.json.sig: the request failed, a
\* non-success status, bytes that are no HybridSignature, or a signature
\* made by signer over the bytes over.
NoSignature == [kind |-> "absent", signer |-> NoKey, over |-> NoBytes]
Signature(signer, over) == [kind |-> "envelope", signer |-> signer, over |-> over]

\* No call of update_repo_by_index is being matched.
NoCall == [called |-> FALSE, idx |-> 0, before |-> << >>, metadata |-> NoMeta,
           bytes |-> NoBytes, signature |-> NoSignature, key |-> NoKey,
           outcome |-> ""]

\* update_all's locals and its config parameter.  attempted is history: the
\* indices update_repo_by_index was called with; last is history: the inputs
\* and the outcome of the call whose result is being matched.
NoUpdate == [pc |-> "idle", enabled_indices |-> << >>, j |-> 0,
             result |-> EmptyResult, attempted |-> << >>,
             config |-> SigningConfig(FALSE, {}, {}), last |-> NoCall]

\* The root before any package is installed: the protected directories exist.
InitFs == [q \in Paths |-> IF q \in ProtectedDirs THEN Dir ELSE Absent]

InitCommon ==
    /\ fs = InitFs
    /\ scripts = [n \in Pkgs |-> NoScripts]
    /\ db = EmptyDb
    /\ foreign_keys \in BOOLEAN
    /\ txdirs = [t \in TxIds |-> NoTxDir]
    /\ now = 0
    /\ tx = [p \in AllProcs |-> IdleTx(0)]
    /\ pre = [t \in TxIds |-> NoSnapshot]

\* No call of the database made by a caller outside the engine.  calls
\* counts them; op, pkg, name and ok are history: the last call, its
\* argument and whether it returned Ok (for remove_package: Ok(true)).
NoDbCall == [calls |-> 0, op |-> "none", pkg |-> << >>, name |-> "", ok |-> FALSE,
             before |-> << >>]

\* No secret key file, and no load_signing_key call made.
NoKeyFile == [exists |-> FALSE, mode |-> 0, content |-> "none"]
NoLoad == [called |-> FALSE, ok |-> FALSE, key |-> "none", error |-> "none"]
NoSigning == [file |-> NoKeyFile, loaded |-> NoLoad]

\* Option<SearchResult>::None, and no find_package call made.  name is
\* history: the name the call was made with.
NoResult == [called |-> FALSE, name |-> "", some |-> FALSE, repository |-> "",
             package |-> << >>]

\* cli::install::run has not been started.  runs counts the runs so far;
\* start, resolved, downloaded, verify_failed and created are history: the
\* root when the run began, and whether the run has called resolve, started
\* a download, seen a verification fail, made a Transaction.
NoCmd ==
    [pc |-> "idle", runs |-> 0, packages |-> << >>, dry_run |-> FALSE,
     package_map |-> << >>, provider |-> {}, not_found |-> << >>,
     root_packages |-> << >>, solution |-> {}, to_install |-> << >>, k |-> 0,
     verified |-> << >>, packages_to_install |-> << >>, result |-> "none",
     start |-> << >>, resolved |-> FALSE, downloaded |-> FALSE,
     verify_failed |-> FALSE, created |-> FALSE, found |-> NoResult,
     db_call |-> NoDbCall]

\* No repository is configured and no command runs.
InitEngine ==
    InitCommon /\ repos = << >> /\ upd = NoUpdate /\ cmd = NoCmd /\ signing = NoSigning

\* One process running transactions one after the other.
Init == InitEngine /\ scenario = "sequential"

\* One process whose filesystem and database calls may return errors.
InitFault == InitEngine /\ scenario = "faulty"

\* One process that may be killed while execute runs; recovery follows.
InitKill == InitEngine /\ scenario = "kill"

\* NProcs processes, each running one transaction on the same root.
InitConc == InitEngine /\ scenario = "concurrent"

\* How many operations a transaction may queue, and whether a process may
\* start another transaction.
OpsBound == IF scenario = "sequential" THEN MaxOps ELSE MaxOps - 1
MayStart(p) == scenario # "concurrent" \/ tx[p].id = 0

\* The exit status of a lifecycle script (run_script): zero or not.
HookOutcomes == IF scenario \in {"concurrent", "install"} THEN {TRUE} ELSE BOOLEAN

\* The outcomes of a filesystem call that may return an I/O error.
IoOutcomes == IF scenario = "faulty" THEN BOOLEAN ELSE {TRUE}

(***************************************************************************)
(* Transaction::save_state: state.toml and operations.toml.                *)
(***************************************************************************)
save_state(dirs, t, st, operations) ==
    [dirs EXCEPT ![t].state = st, ![t].ops = operations]

(***************************************************************************)
(* Transaction::new                                                        *)
(***************************************************************************)
New(p) ==
    /\ tx[p].pc = "idle"
    /\ MayStart(p)
    /\ \E t \in {now, now + 1} :
        /\ t \in TxIds
        /\ t > tx[p].id
        /\ now' = t
        /\ tx' = [tx EXCEPT ![p] = [IdleTx(t) EXCEPT !.pc = "pending"]]
        /\ txdirs' = save_state([txdirs EXCEPT ![t].exists = TRUE], t, "Pending", << >>)
    /\ UNCHANGED << fs, scripts, db, foreign_keys, scenario, repos, upd, cmd, signing, pre >>

(***************************************************************************)
(* Transaction::install / remove / upgrade                                 *)
(***************************************************************************)
QueueInstall(p, a) ==
    /\ tx[p].pc = "pending"
    /\ Len(tx[p].ops) < OpsBound
    /\ tx' = [tx EXCEPT ![p].ops = Append(@, OpInstall(a)),
                         ![p].queued = Append(@, OpInstall(a))]
    /\ UNCHANGED << fs, scripts, db, foreign_keys, txdirs, now, scenario, repos, upd, cmd, signing, pre >>

QueueRemove(p, n) ==
    /\ tx[p].pc = "pending"
    /\ Len(tx[p].ops) < OpsBound
    /\ tx' = [tx EXCEPT ![p].ops = Append(@, OpRemove(n)),
                         ![p].queued = Append(@, OpRemove(n))]
    /\ UNCHANGED << fs, scripts, db, foreign_keys, txdirs, now, scenario, repos, upd, cmd, signing, pre >>

QueueUpgrade(p, a) ==
    /\ tx[p].pc = "pending"
    /\ Len(tx[p].ops) < OpsBound
    /\ tx' = [tx EXCEPT ![p].ops = Append(@, OpUpgrade(a)),
                         ![p].queued = Append(@, OpUpgrade(a))]
    /\ UNCHANGED << fs, scripts, db, foreign_keys, txdirs, now, scenario, repos, upd, cmd, signing, pre >>

(***************************************************************************)
(* TransactionBuilder: install / remove / upgrade push onto the builder's  *)
(* list; execute makes a Transaction and queues the list on it in a loop.  *)
(***************************************************************************)
Requests ==
    {OpInstall(a) : a \in Archives} \cup {OpRemove(n) : n \in Pkgs}
        \cup {OpUpgrade(a) : a \in Archives}

RequestLists == UNION {[1..m -> Requests] : m \in 0..OpsBound}

\* The loop of TransactionBuilder::execute, taking the list from its end.
PushAll_Reversed(operations, list) ==
    operations \o [j \in 1..Len(list) |-> list[Len(list) + 1 - j]]

RECURSIVE PushAll(_, _)
PushAll(operations, list) ==
    IF list = << >> THEN operations
    ELSE PushAll(Append(operations, Head(list)), Tail(list))

\* Transaction::new at time t, then the loop over the builder's list.
Build(p, t, list) ==
    /\ t \in TxIds
    /\ t > tx[p].id
    /\ now' = t
    /\ tx' = [tx EXCEPT ![p] = [IdleTx(t) EXCEPT !.pc = "built",
                                   !.ops = PushAll(<< >>, list),
                                   !.queued = list]]
    /\ txdirs' = save_state([txdirs EXCEPT ![t].exists = TRUE], t, "Pending", << >>)

BuilderExecute(p) ==
    /\ tx[p].pc = "idle"
    /\ MayStart(p)
    /\ \E t \in {now, now + 1}, list \in RequestLists : Build(p, t, list)
    /\ UNCHANGED << fs, scripts, db, foreign_keys, scenario, repos, upd, cmd, signing, pre >>

\* execute without its check of the state.
ExecuteBegin_NoStateCheck(p) ==
    /\ tx[p].pc \in {"pending", "built", "done", "resumed"}
    /\ txdirs[tx[p].id].exists
    /\ tx' = [tx EXCEPT ![p].state = "InProgress", ![p].pc = "op", ![p].i = 1]
    /\ txdirs' = save_state(txdirs, tx[p].id, "InProgress", tx[p].ops)
    /\ pre' = [pre EXCEPT ![tx[p].id] =
                 [taken |-> TRUE, recovered |-> FALSE, killed_at |-> "none", fs |-> fs,
                  scripts |-> scripts, db |-> db]]
    /\ UNCHANGED << fs, scripts, db, foreign_keys, now, scenario, repos, upd, cmd, signing >>

(***************************************************************************)
(* Transaction::execute, its entry: the state check, InProgress,           *)
(* save_state.                                                             *)
(***************************************************************************)
ExecuteBegin(p) ==
    /\ tx[p].pc \in {"pending", "built", "done", "resumed"}
    /\ IF tx[p].state # "Pending"
       THEN \* bail!("Transaction already executed")
            /\ tx' = [tx EXCEPT ![p].pc = "done", ![p].refused = TRUE]
            /\ UNCHANGED << fs, scripts, db, foreign_keys, txdirs, now, scenario, repos, upd, cmd, signing, pre >>
       ELSE IF ~txdirs[tx[p].id].exists
       THEN \* save_state()? fails: the directory is gone
            /\ tx' = [tx EXCEPT ![p].state = "InProgress", ![p].pc = "done",
                                 ![p].result = "Err"]
            /\ UNCHANGED << fs, scripts, db, foreign_keys, txdirs, now, scenario, repos, upd, cmd, signing, pre >>
       ELSE /\ tx' = [tx EXCEPT ![p].state = "InProgress", ![p].pc = "op", ![p].i = 1]
            /\ txdirs' = save_state(txdirs, tx[p].id, "InProgress", tx[p].ops)
            /\ pre' = [pre EXCEPT ![tx[p].id] =
                         [taken |-> TRUE, recovered |-> FALSE, killed_at |-> "none", fs |-> fs,
                          scripts |-> scripts, db |-> db]]
            /\ UNCHANGED << fs, scripts, db, foreign_keys, now, scenario, repos, upd, cmd, signing >>

(***************************************************************************)
(* Helpers of the operations.                                              *)
(***************************************************************************)
CurOp(p) == tx[p].ops[tx[p].i]

\* An operation returned Err(e): execute goes to its rollback branch.
\* The loop of execute going on to the next operation after an error.
OpFailed_Ignored(t, e) == [t EXCEPT !.pc = "op", !.i = @ + 1, !.err = e]

\* execute_operation returned Err(e): the if let Err(e) branch of execute.
OpFailed(t, e) == [t EXCEPT !.pc = "op_failed", !.err = e]

Error(kind) == [kind |-> kind, path |-> "none", owner |-> "none"]

\* "File conflict: {path} is already owned by package '{owner}'"
FileConflict(path, owner) == [kind |-> "FileConflict", path |-> path, owner |-> owner]

\* The conflict check without its comparison of the owner with the package.
Conflicts_AnyOwner(d, ar) ==
    {k \in 1..Len(ar.files) : HasOwner(d, ar.files[k].path)}

\* The conflict check: the manifest entries owned by a different package.
Conflicts(d, ar) ==
    {k \in 1..Len(ar.files) :
        /\ HasOwner(d, ar.files[k].path)
        /\ file_owner(d, ar.files[k].path) # ar.name}

SetMin(S) == CHOOSE m \in S : \A x \in S : m <= x

\* Transaction::save_package_scripts: the non-empty scripts are written.
save_package_scripts(sc, ar) ==
    [sc EXCEPT ![ar.name] =
        [dir |-> TRUE,
         sh |-> [h \in Hooks |-> IF h \in ar.scripts THEN ar.version ELSE @.sh[h]]]]

\* Transaction::load_package_script returns a non-empty script.
HasSavedScript(sc, n, h) == sc[n].sh[h] # 0

\* Transaction::remove_package_scripts
remove_package_scripts(sc, n) == [sc EXCEPT ![n] = NoScripts]

\* fs::create_dir_all(&backup_dir) also creates the transaction directory.
MakeBackupDir(dirs, t) == [dirs EXCEPT ![t].exists = TRUE]

\* run_script(package, script_name, content): the log of the scripts run,
\* content being named by the version of the archive it came from.
Ran(t, present, n, h, v) ==
    IF present THEN [t EXCEPT !.hooks = Append(@, [hook |-> h, pkg |-> n, version |-> v])]
    ELSE t

\* A new operation starts with an empty log.
Fresh(t) == [t EXCEPT !.hooks = << >>]

\* execute's loop calls execute_operation with the operation at index i.
Enter(t) == [Fresh(t) EXCEPT !.executed = Append(@, t.ops[t.i])]

(***************************************************************************)
(* Transaction::do_install, its prologue: open the archive, pre_install,   *)
(* the file-conflict check, the backup and extract directories.            *)
(***************************************************************************)
InstallBegin(p) ==
    /\ tx[p].pc = "op"
    /\ tx[p].i <= Len(tx[p].ops)
    /\ CurOp(p).kind = "Install"
    /\ LET ar == Archive(CurOp(p).archive)
           cf == Conflicts(db, ar)
           first == ar.files[SetMin(cf)].path
       IN \E hook_ok \in HookOutcomes :
            /\ ("pre_install" \notin ar.scripts) => hook_ok
            /\ tx' = [tx EXCEPT ![p] =
                        LET t == Ran(Enter(@), "pre_install" \in ar.scripts,
                                     ar.name, "pre_install", ar.version)
                        IN IF ~hook_ok THEN OpFailed(t, Error("ScriptFailed"))
                           ELSE IF cf # {}
                                THEN OpFailed(t, FileConflict(first, file_owner(db, first)))
                                ELSE [t EXCEPT !.pc = "inst_files", !.k = 1,
                                               !.phase = "install"]]
            /\ txdirs' = IF hook_ok /\ cf = {}
                         THEN MakeBackupDir(txdirs, tx[p].id) ELSE txdirs
    /\ UNCHANGED << fs, scripts, db, foreign_keys, now, scenario, repos, upd, cmd, signing, pre >>

(***************************************************************************)
(* do_install / do_install_for_upgrade: one iteration of "Install files    *)
(* to root": back up an existing destination, create the parent, copy.     *)
(***************************************************************************)
InstallFile(p) ==
    /\ tx[p].pc = "inst_files"
    /\ LET ar == Archive(CurOp(p).archive)
       IN /\ tx[p].k <= Len(ar.files)
          /\ LET fe == ar.files[tx[p].k]
                 dest == fe.path
                 t == tx[p].id
                 backs == Exists(fs, dest)
                 j1 == IF backs THEN Append(tx[p].journal, FileModified(dest, ar.name))
                       ELSE tx[p].journal
                 mk == ~Exists(fs, Parent(dest))
                 f1 == IF mk THEN CreateDirAll(fs, Parent(dest)) ELSE fs
                 j2 == IF mk THEN Append(j1, DirCreated(Parent(dest))) ELSE j1
             IN IF backs /\ ~IsFile(fs, dest)
                THEN \* fs::copy(&dest, &backup) of a directory is an error
                     /\ tx' = [tx EXCEPT ![p] = OpFailed(@, Error("FilesystemIO"))]
                     /\ UNCHANGED << fs, txdirs >>
                ELSE \E io_ok \in IoOutcomes :
                     /\ txdirs' = IF backs
                                  THEN [txdirs EXCEPT ![t].backup[<<ar.name, dest>>] = fs[dest]]
                                  ELSE txdirs
                     /\ IF io_ok /\ CanWrite(f1, dest)
                        THEN /\ fs' = WriteFile(f1, dest, fe.content)
                             /\ tx' = [tx EXCEPT ![p].journal = Append(j2, FileCreated(dest)),
                                                 ![p].k = @ + 1]
                        ELSE /\ fs' = f1
                             /\ tx' = [tx EXCEPT ![p] =
                                         OpFailed([@ EXCEPT !.journal = j2],
                                                  Error("FilesystemIO"))]
    /\ UNCHANGED << scripts, db, foreign_keys, now, scenario, repos, upd, cmd, signing, pre >>

(***************************************************************************)
(* do_install: "Add to database", the package row and its journal entry.   *)
(***************************************************************************)
InstallAddPackage(p) ==
    /\ tx[p].pc = "inst_files"
    /\ LET ar == Archive(CurOp(p).archive)
           pkg == [name |-> ar.name, version |-> ar.version]
       IN /\ tx[p].k > Len(ar.files)
          /\ IF CanAddPackage(db, pkg)
             THEN /\ db' = add_package(db, pkg)
                  /\ tx' = [tx EXCEPT ![p].pkg_id = NextRowId(db),
                                      ![p].journal = Append(@, DbPackageAdded(ar.name)),
                                      ![p].pc = "inst_db", ![p].k = 1]
             ELSE /\ db' = db
                  /\ tx' = [tx EXCEPT ![p] = OpFailed(@, Error("DatabaseIntegrity"))]
    /\ UNCHANGED << fs, scripts, foreign_keys, txdirs, now, scenario, repos, upd, cmd, signing, pre >>

(***************************************************************************)
(* do_install: "Add files to database", one add_file.                      *)
(***************************************************************************)
InstallAddFile(p) ==
    /\ tx[p].pc = "inst_db"
    /\ LET ar == Archive(CurOp(p).archive)
       IN /\ tx[p].k <= Len(ar.files)
          /\ IF CanAddFile(db, ar.files[tx[p].k].path)
             THEN /\ db' = add_file(db, tx[p].pkg_id, ar.files[tx[p].k])
                  /\ tx' = [tx EXCEPT ![p].k = @ + 1]
             ELSE /\ db' = db
                  /\ tx' = [tx EXCEPT ![p] = OpFailed(@, Error("DatabaseIntegrity"))]
    /\ UNCHANGED << fs, scripts, foreign_keys, txdirs, now, scenario, repos, upd, cmd, signing, pre >>

(***************************************************************************)
(* do_install: the dependency rows, save_package_scripts, post_install     *)
(* (not in do_install_for_upgrade); save_journal follows.                  *)
(***************************************************************************)
RECURSIVE AddDeps(_, _, _)
AddDeps(d, pid, deps) ==
    IF deps = {} THEN d
    ELSE LET x == CHOOSE y \in deps : TRUE
         IN AddDeps(add_dependency(d, pid, x), pid, deps \ {x})

InstallFinish(p) ==
    /\ tx[p].pc = "inst_db"
    /\ LET ar == Archive(CurOp(p).archive)
       IN /\ tx[p].k > Len(ar.files)
          /\ db' = AddDeps(db, tx[p].pkg_id, ar.depends)
          /\ scripts' = IF ar.has_scripts THEN save_package_scripts(scripts, ar)
                        ELSE scripts
          /\ \E hook_ok \in HookOutcomes :
               /\ (tx[p].phase # "install" \/ "post_install" \notin ar.scripts) => hook_ok
               /\ tx' = [tx EXCEPT ![p] =
                           LET t == Ran(@, tx[p].phase = "install"
                                           /\ "post_install" \in ar.scripts,
                                        ar.name, "post_install", ar.version)
                           IN IF hook_ok THEN [t EXCEPT !.pc = "save_journal"]
                              ELSE OpFailed(t, Error("ScriptFailed"))]
    /\ UNCHANGED << fs, foreign_keys, txdirs, now, scenario, repos, upd, cmd, signing, pre >>

(***************************************************************************)
(* Transaction::save_journal: fs::write(journal.toml) is File::create      *)
(* (which truncates the file) followed by write_all.                       *)
(***************************************************************************)
SaveJournalCreate(p) ==
    /\ tx[p].pc = "save_journal"
    /\ IF txdirs[tx[p].id].exists
       THEN /\ txdirs' = [txdirs EXCEPT ![tx[p].id].journal =
                            [present |-> TRUE, complete |-> FALSE, entries |-> << >>]]
            /\ tx' = [tx EXCEPT ![p].pc = "save_journal_write"]
       ELSE /\ txdirs' = txdirs
            /\ tx' = [tx EXCEPT ![p] = OpFailed(@, Error("FilesystemIO"))]
    /\ UNCHANGED << fs, scripts, db, foreign_keys, now, scenario, repos, upd, cmd, signing, pre >>

\* Where the operation continues once its journal is saved.
AfterSave(t) ==
    CASE t.phase = "up_remove" -> [t EXCEPT !.pc = "up_install"]
      [] t.phase = "up_install" -> [t EXCEPT !.pc = "up_post"]
      [] OTHER -> [t EXCEPT !.pc = "op", !.i = @ + 1]

SaveJournalWrite(p) ==
    /\ tx[p].pc = "save_journal_write"
    /\ IF txdirs[tx[p].id].exists
       THEN /\ txdirs' = [txdirs EXCEPT ![tx[p].id].journal =
                            [present |-> TRUE, complete |-> TRUE,
                             entries |-> tx[p].journal]]
            /\ tx' = [tx EXCEPT ![p] = AfterSave(@)]
       ELSE /\ txdirs' = txdirs
            /\ tx' = [tx EXCEPT ![p] = OpFailed(@, Error("FilesystemIO"))]
    /\ UNCHANGED << fs, scripts, db, foreign_keys, now, scenario, repos, upd, cmd, signing, pre >>

(***************************************************************************)
(* Transaction::do_remove / do_remove_for_upgrade.                         *)
(***************************************************************************)
\* file_paths.sort(); file_paths.reverse()
RECURSIVE SortDesc(_)
SortDesc(S) ==
    IF S = {} THEN << >>
    ELSE LET m == CHOOSE x \in S : \A y \in S : PathRank(y) <= PathRank(x)
         IN << m >> \o SortDesc(S \ {m})

\* The prologue of the removal: the installed record, the DbPackageRemoved
\* entry with the serialized record, the reversed list of owned paths.
StartRemoval(t, n, phase) ==
    IF ~HasPackage(db, n) THEN OpFailed(t, Error("NotInstalled"))
    ELSE [t EXCEPT !.journal =
                      Append(@, DbPackageRemoved(n, PackageToToml(get_package(db, n)))),
                   !.file_paths = SortDesc(get_files(db, n)),
                   !.dirs_to_check = {},
                   !.pc = "rm_files", !.k = 1, !.phase = phase]

RemoveBegin(p) ==
    /\ tx[p].pc = "op"
    /\ tx[p].i <= Len(tx[p].ops)
    /\ CurOp(p).kind = "Remove"
    /\ LET n == CurOp(p).package
       IN \E hook_ok \in HookOutcomes :
            /\ ~(HasPackage(db, n) /\ HasSavedScript(scripts, n, "pre_remove")) => hook_ok
            /\ tx' = [tx EXCEPT ![p] =
                        LET t == Ran(Enter(@), HasPackage(db, n)
                                        /\ HasSavedScript(scripts, n, "pre_remove"),
                                     n, "pre_remove", scripts[n].sh["pre_remove"])
                        IN IF hook_ok THEN StartRemoval(t, n, "remove")
                           ELSE OpFailed(t, Error("ScriptFailed"))]
            /\ txdirs' = IF hook_ok /\ HasPackage(db, n)
                         THEN MakeBackupDir(txdirs, tx[p].id) ELSE txdirs
    /\ UNCHANGED << fs, scripts, db, foreign_keys, now, scenario, repos, upd, cmd, signing, pre >>

\* One iteration of "Remove files": back up, unlink, journal, remember the parent.
RemoveFile(p) ==
    /\ tx[p].pc = "rm_files"
    /\ tx[p].k <= Len(tx[p].file_paths)
    /\ LET path == tx[p].file_paths[tx[p].k]
           n == CurOp(p).package
       IN IF IsFile(fs, path)
          THEN /\ txdirs' = [txdirs EXCEPT ![tx[p].id].backup[<<n, path>>] = fs[path]]
               /\ fs' = RemoveNode(fs, path)
               /\ tx' = [tx EXCEPT ![p].journal = Append(@, FileRemoved(path, n)),
                                   ![p].dirs_to_check = @ \cup {Parent(path)},
                                   ![p].k = @ + 1]
          ELSE /\ tx' = [tx EXCEPT ![p].k = @ + 1]
               /\ UNCHANGED << fs, txdirs >>
    /\ UNCHANGED << scripts, db, foreign_keys, now, scenario, repos, upd, cmd, signing, pre >>

\* The loop without its test of the protected set.
RECURSIVE RemoveEmptyDirs_Unprotected(_, _)
RemoveEmptyDirs_Unprotected(f, dirs) ==
    IF dirs = << >> THEN f
    ELSE LET d == Head(dirs)
         IN RemoveEmptyDirs_Unprotected(
                IF IsDir(f, d) /\ DirEmpty(f, d) THEN RemoveNode(f, d) ELSE f,
                Tail(dirs))

\* "Remove empty directories": in reverse order, never a protected one.
RECURSIVE RemoveEmptyDirs(_, _)
RemoveEmptyDirs(f, dirs) ==
    IF dirs = << >> THEN f
    ELSE LET d == Head(dirs)
         IN RemoveEmptyDirs(
                IF d \notin ProtectedDirs /\ IsDir(f, d) /\ DirEmpty(f, d)
                THEN RemoveNode(f, d) ELSE f,
                Tail(dirs))

\* post_remove run by the removal half of an Upgrade as well.
RanPostRemove_InUpgrade(t, n) ==
    Ran(t, HasSavedScript(scripts, n, "post_remove"),
        n, "post_remove", scripts[n].sh["post_remove"])

\* do_remove's post_remove, loaded from the saved scripts.
RanPostRemove(t, n) ==
    Ran(t, t.phase = "remove" /\ HasSavedScript(scripts, n, "post_remove"),
        n, "post_remove", scripts[n].sh["post_remove"])

\* The rest of the removal: the empty directories, the database rows,
\* post_remove (do_remove only), the saved scripts; save_journal follows.
RemoveFinish(p) ==
    /\ tx[p].pc = "rm_files"
    /\ tx[p].k > Len(tx[p].file_paths)
    /\ LET n == CurOp(p).package
       IN /\ fs' = RemoveEmptyDirs(fs, SortDesc(tx[p].dirs_to_check))
          /\ db' = remove_package(db, n, foreign_keys)
          /\ \E hook_ok \in HookOutcomes :
               /\ (tx[p].phase # "remove" \/ ~HasSavedScript(scripts, n, "post_remove"))
                     => hook_ok
               /\ IF hook_ok
                  THEN /\ scripts' = remove_package_scripts(scripts, n)
                       /\ tx' = [tx EXCEPT ![p] =
                                   [RanPostRemove(@, n) EXCEPT !.pc = "save_journal"]]
                  ELSE /\ scripts' = scripts
                       /\ tx' = [tx EXCEPT ![p] =
                                   OpFailed(RanPostRemove(@, n), Error("ScriptFailed"))]
    /\ UNCHANGED << foreign_keys, txdirs, now, scenario, repos, upd, cmd, signing, pre >>

(***************************************************************************)
(* Transaction::do_upgrade: the old package's pre_upgrade, then            *)
(* do_remove_for_upgrade, do_install_for_upgrade, the new post_upgrade.    *)
(***************************************************************************)
UpgradeBegin(p) ==
    /\ tx[p].pc = "op"
    /\ tx[p].i <= Len(tx[p].ops)
    /\ CurOp(p).kind = "Upgrade"
    /\ LET n == CurOp(p).package
       IN \E hook_ok \in HookOutcomes :
            /\ ~HasSavedScript(scripts, n, "pre_upgrade") => hook_ok
            /\ tx' = [tx EXCEPT ![p] =
                        LET t == Ran(Enter(@), HasSavedScript(scripts, n, "pre_upgrade"),
                                     n, "pre_upgrade", scripts[n].sh["pre_upgrade"])
                        IN IF hook_ok THEN StartRemoval(t, n, "up_remove")
                           ELSE OpFailed(t, Error("ScriptFailed"))]
            /\ txdirs' = IF hook_ok /\ HasPackage(db, n)
                         THEN MakeBackupDir(txdirs, tx[p].id) ELSE txdirs
    /\ UNCHANGED << fs, scripts, db, foreign_keys, now, scenario, repos, upd, cmd, signing, pre >>

\* do_install_for_upgrade, its prologue: the file-conflict check.
UpgradeInstallBegin(p) ==
    /\ tx[p].pc = "up_install"
    /\ LET ar == Archive(CurOp(p).archive)
           cf == Conflicts(db, ar)
           first == ar.files[SetMin(cf)].path
       IN /\ tx' = [tx EXCEPT ![p] =
                   IF cf # {}
                   THEN OpFailed(@, FileConflict(first, file_owner(db, first)))
                   ELSE [@ EXCEPT !.pc = "inst_files", !.k = 1, !.phase = "up_install"]]
          /\ txdirs' = IF cf = {} THEN MakeBackupDir(txdirs, tx[p].id) ELSE txdirs
    /\ UNCHANGED << fs, scripts, db, foreign_keys, now, scenario, repos, upd, cmd, signing, pre >>

\* do_upgrade, its end: post_upgrade of the new archive.
UpgradeFinish(p) ==
    /\ tx[p].pc = "up_post"
    /\ LET ar == Archive(CurOp(p).archive)
       IN \E hook_ok \in HookOutcomes :
            /\ ("post_upgrade" \notin ar.scripts) => hook_ok
            /\ tx' = [tx EXCEPT ![p] =
                        LET t == Ran(@, "post_upgrade" \in ar.scripts,
                                     ar.name, "post_upgrade", ar.version)
                        IN IF hook_ok THEN [t EXCEPT !.pc = "op", !.i = @ + 1]
                           ELSE OpFailed(t, Error("ScriptFailed"))]
    /\ UNCHANGED << fs, scripts, db, foreign_keys, txdirs, now, scenario, repos, upd, cmd, signing, pre >>

(***************************************************************************)
(* Transaction::rollback: the journal in reverse, every step's error       *)
(* dropped by .ok().  ok = FALSE is the step's filesystem or database      *)
(* call returning an error.                                                *)
(***************************************************************************)
UndoEntry(e, st, backup, fk, ok) ==
    LET b == backup[<<e.pkg, e.path>>]
        made == CreateDirAll(st.fs, Parent(e.path))
    IN CASE e.type = "FileCreated" ->
              IF ok /\ IsFile(st.fs, e.path)
              THEN [st EXCEPT !.fs = RemoveNode(@, e.path)] ELSE st
         [] e.type = "FileRemoved" ->
              IF b # Absent /\ ok /\ CanWrite(made, e.path)
              THEN [st EXCEPT !.fs = WriteFile(made, e.path, b)] ELSE st
         [] e.type = "FileModified" ->
              IF b # Absent /\ ok /\ CanWrite(st.fs, e.path)
              THEN [st EXCEPT !.fs = WriteFile(@, e.path, b)] ELSE st
         [] e.type = "DirCreated" ->
              IF ok /\ IsDir(st.fs, e.path) /\ DirEmpty(st.fs, e.path)
              THEN [st EXCEPT !.fs = RemoveNode(@, e.path)] ELSE st
         [] e.type = "DbPackageAdded" ->
              IF ok THEN [st EXCEPT !.db = remove_package(@, e.pkg, fk)] ELSE st
         [] OTHER ->
              IF ok /\ CanAddPackage(st.db, PackageFromToml(e.data))
              THEN [st EXCEPT !.db = add_package(@, PackageFromToml(e.data))] ELSE st

\* A rollback that undoes nothing.
rollback_Nothing(journal, st, backup, fk, bad) == st

\* bad is the index of the journal entry whose inverse fails (0: none does).
RECURSIVE rollback(_, _, _, _, _)
rollback(journal, st, backup, fk, bad) ==
    IF journal = << >> THEN st
    ELSE rollback(SubSeq(journal, 1, Len(journal) - 1),
                  UndoEntry(journal[Len(journal)], st, backup, fk, Len(journal) # bad),
                  backup, fk, bad)

\* Whether undoing entry e in state st makes a filesystem or database call.
UndoCalls(e, st, backup) ==
    CASE e.type = "FileCreated" -> Exists(st.fs, e.path)
      [] e.type \in {"FileRemoved", "FileModified"} -> backup[<<e.pkg, e.path>>] # Absent
      [] e.type = "DirCreated" -> IsDir(st.fs, e.path)
      [] OTHER -> TRUE

\* rollback's result as execute sees it: the function ends in Ok(()) whatever
\* its steps returned.
RollbackResult(bad) == "Ok"

\* Transaction::execute, the branch of a failed operation.
Rollback(p) ==
    /\ tx[p].pc = "op_failed"
    /\ \E bad \in (IF scenario = "faulty" THEN 0..Len(tx[p].journal) ELSE {0}) :
         LET t == tx[p].id
             st == rollback(tx[p].journal, [fs |-> fs, db |-> db],
                            txdirs[t].backup, foreign_keys, bad)
             final == IF RollbackResult(bad) = "Ok" THEN "RolledBack" ELSE "Failed"
             j == tx[p].journal
             before == rollback(SubSeq(j, bad + 1, Len(j)), [fs |-> fs, db |-> db],
                                txdirs[t].backup, foreign_keys, 0)
         IN /\ fs' = st.fs
            /\ db' = st.db
            /\ tx' = [tx EXCEPT ![p].state = final, ![p].pc = "done",
                                ![p].result = "Err",
                                ![p].undo_failed =
                                    bad # 0 /\ UndoCalls(j[bad], before, txdirs[t].backup)]
            /\ txdirs' = IF txdirs[t].exists
                         THEN save_state(txdirs, t, final, tx[p].ops) ELSE txdirs
    /\ UNCHANGED << scripts, foreign_keys, now, scenario, repos, upd, cmd, signing, pre >>

(***************************************************************************)
(* Transaction::execute, its end: Completed and save_state; then cleanup.  *)
(***************************************************************************)
Commit(p) ==
    /\ tx[p].pc = "op"
    /\ tx[p].i > Len(tx[p].ops)
    /\ IF txdirs[tx[p].id].exists
       THEN /\ tx' = [tx EXCEPT ![p].state = "Completed", ![p].pc = "cleanup"]
            /\ txdirs' = save_state(txdirs, tx[p].id, "Completed", tx[p].ops)
       ELSE \* save_state()? fails: the directory is gone
            /\ tx' = [tx EXCEPT ![p].state = "Completed", ![p].pc = "done",
                                 ![p].result = "Err",
                                 ![p].err = Error("FilesystemIO")]
            /\ txdirs' = txdirs
    /\ UNCHANGED << fs, scripts, db, foreign_keys, now, scenario, repos, upd, cmd, signing, pre >>

\* cleanup after execute: the removal, failing, with its error propagated.
Cleanup_Propagates(p) ==
    /\ tx[p].pc = "cleanup"
    /\ \E io_ok \in IoOutcomes :
         /\ txdirs' = IF io_ok THEN [txdirs EXCEPT ![tx[p].id] = NoTxDir] ELSE txdirs
         /\ tx' = [tx EXCEPT ![p].pc = "done",
                              ![p].result = IF io_ok THEN "Ok" ELSE "Err",
                              ![p].err = IF io_ok THEN @ ELSE Error("FilesystemIO")]
    /\ UNCHANGED << fs, scripts, db, foreign_keys, now, scenario, repos, upd, cmd, signing, pre >>

\* Transaction::cleanup: remove_dir_all(tx_dir).ok(), then execute returns Ok(()).
Cleanup(p) ==
    /\ tx[p].pc = "cleanup"
    /\ \E io_ok \in IoOutcomes :
         txdirs' = IF io_ok THEN [txdirs EXCEPT ![tx[p].id] = NoTxDir] ELSE txdirs
    /\ tx' = [tx EXCEPT ![p].pc = "done", ![p].result = "Ok"]
    /\ UNCHANGED << fs, scripts, db, foreign_keys, now, scenario, repos, upd, cmd, signing, pre >>

\* execute has returned and the Transaction object is dropped.
Return(p) ==
    /\ tx[p].pc = "done"
    /\ tx' = [tx EXCEPT ![p] = IdleTx(@.id)]
    /\ UNCHANGED << fs, scripts, db, foreign_keys, txdirs, now, scenario, repos, upd, cmd, signing, pre >>

(***************************************************************************)
(* The process is killed while execute runs: its memory is gone, the root, *)
(* the database and the transaction directory stay as they are.            *)
(***************************************************************************)
Executing(p) == tx[p].pc \notin {"idle", "pending", "built", "done", "resumed"}

Crash(p) ==
    /\ Executing(p)
    /\ tx' = [tx EXCEPT ![p] = IdleTx(@.id)]
    /\ pre' = [pre EXCEPT ![tx[p].id].killed_at = tx[p].pc]
    /\ UNCHANGED << fs, scripts, db, foreign_keys, txdirs, now, scenario, repos, upd, cmd, signing >>

(***************************************************************************)
(* Recovery of a transaction found InProgress: Transaction::resume reloads *)
(* state, operations and journal from the directory, and the journal is    *)
(* inverted by rollback.                                                   *)
(***************************************************************************)
\* Transaction::resume succeeds: the directory exists and journal.toml, if
\* present, parses.
CanResume(t) ==
    /\ txdirs[t].exists
    /\ txdirs[t].journal.present => txdirs[t].journal.complete

resume(t) ==
    [state |-> txdirs[t].state, ops |-> txdirs[t].ops,
     journal |-> IF txdirs[t].journal.present THEN txdirs[t].journal.entries ELSE << >>]

\* Transaction::resume called by a process that holds no Transaction object
\* and has started no later transaction: the object gets the state, the
\* operations and the journal read from the directory.
Resume(p, t) ==
    /\ tx[p].pc = "idle"
    /\ tx[p].id <= t
    /\ CanResume(t)
    /\ tx' = [tx EXCEPT ![p] = [IdleTx(t) EXCEPT !.pc = "resumed", !.resumed = TRUE,
                                   !.state = resume(t).state,
                                   !.ops = resume(t).ops,
                                   !.journal = resume(t).journal]]
    /\ UNCHANGED << fs, scripts, db, foreign_keys, txdirs, now, scenario, repos, upd, cmd, signing, pre >>

Recover(t) ==
    /\ \A p \in Procs : tx[p].pc = "idle"
    /\ CanResume(t)
    /\ resume(t).state = "InProgress"
    /\ LET st == rollback(resume(t).journal, [fs |-> fs, db |-> db],
                          txdirs[t].backup, foreign_keys, 0)
       IN /\ fs' = st.fs
          /\ db' = st.db
          /\ txdirs' = save_state(txdirs, t, "RolledBack", resume(t).ops)
          /\ pre' = [pre EXCEPT ![t].recovered = TRUE]
    /\ UNCHANGED << scripts, foreign_keys, now, scenario, repos, upd, cmd, signing, tx >>

(***************************************************************************)
(* The user edits a configuration file of the root between transactions.   *)
(***************************************************************************)
ConfigPaths ==
    {q \in Paths : \E a \in Archives : \E k \in 1..Len(Archive(a).files) :
        Archive(a).files[k].path = q /\ Archive(a).files[k].is_config}

UserEdit(path) ==
    /\ \A p \in Procs : tx[p].pc = "idle"
    /\ IsFile(fs, path)
    /\ fs[path] # UserContent
    /\ fs' = WriteFile(fs, path, UserContent)
    /\ UNCHANGED << scripts, db, foreign_keys, txdirs, now, scenario, repos, upd, cmd, signing, tx, pre >>

\* A file the user put into the root before any package was installed: it
\* is owned by no package.
UnownedPaths == {"/usr/bin/x"}

UserCreate(path) ==
    /\ \A p \in Procs : tx[p].pc = "idle"
    /\ now = 0
    /\ fs[path] = Absent
    /\ IsDir(fs, Parent(path))
    /\ fs' = WriteFile(fs, path, UserContent)
    /\ UNCHANGED << scripts, db, foreign_keys, txdirs, now, scenario, repos, upd, cmd, signing, tx, pre >>

(***************************************************************************)
(* cli::install::run, its data: PackageEntry, version and dependency       *)
(* strings, the dependency provider and the resolver.                      *)
(***************************************************************************)
\* Names a user may ask for; "baz" is in no index.
RequestNames == Pkgs \cup {"baz"}
NameOrder == << "bar", "baz", "foo" >>

\* A dependency string, "name" or "name op version"; op "" is the bare name.
\* A version string is the list of its dot-separated numeric parts.
DepString(name, op, version) == [name |-> name, op |-> op, version |-> version]

\* PackageEntry: filename names the archive the entry is downloaded as.
PackageEntry(a, version, depends) ==
    [name |-> Archive(a).name, version |-> version, depends |-> depends,
     filename |-> a]

\* The entries an index may list: foo-1.5, foo-2.1, bar-1.0, and bar-1.0
\* declaring "foo >= 2.0".
FooDepends == << DepString("bar", "", << >>) >>
BarDepends == << DepString("foo", ">=", << 2, 0 >>) >>
Foo15 == PackageEntry("foo1", << 1, 5 >>, FooDepends)
Foo21 == PackageEntry("foo2", << 2, 1 >>, FooDepends)
Bar10 == PackageEntry("bar1", << 1, 0 >>, << >>)
Bar10Foo == PackageEntry("bar1", << 1, 0 >>, BarDepends)

\* parse_version: major, minor, patch; a missing part is 0.
parse_version(s) == [i \in 1..3 |-> IF i <= Len(s) THEN s[i] ELSE 0]

\* SemanticVersion's Ord
VersionLess(v, w) ==
    \/ v[1] < w[1]
    \/ v[1] = w[1] /\ v[2] < w[2]
    \/ v[1] = w[1] /\ v[2] = w[2] /\ v[3] < w[3]

\* parse_dep_string: the operators in the order they are searched for.
Operators == << ">=", "<=", "==", "!=", ">", "<", "=" >>

\* dep.find(op): names and versions hold no operator character, so op is
\* found iff it occurs within the operator of the string.
Found(dep, op) ==
    CASE dep.op = op -> TRUE
      [] dep.op = ">=" -> op \in {">", "="}
      [] dep.op = "<=" -> op \in {"<", "="}
      [] dep.op = "==" -> op = "="
      [] dep.op = "!=" -> op = "="
      [] OTHER -> FALSE

AnyVersion == [op |-> "*", version |-> << >>]

parse_dep_string(dep) ==
    LET hits == { i \in 1..Len(Operators) : Found(dep, Operators[i]) }
    IN IF hits = {} THEN [name |-> dep.name, constraint |-> AnyVersion]
       ELSE [name |-> dep.name,
             constraint |-> [op |-> Operators[SetMin(hits)], version |-> dep.version]]

\* resolver::parse_constraint: a Range, or an error for what is not a
\* constraint of the dependency grammar.
parse_constraint(c) ==
    IF c.op \in {"*", "=", "!=", "<", "<=", ">", ">="}
    THEN [ok |-> TRUE, op |-> c.op, version |-> parse_version(c.version)]
    ELSE [ok |-> FALSE, op |-> c.op, version |-> parse_version(c.version)]

\* Range::contains
Contains(range, v) ==
    CASE range.op = "*" -> TRUE
      [] range.op = "=" -> v = range.version
      [] range.op = "!=" -> v # range.version
      [] range.op = "<" -> VersionLess(v, range.version)
      [] range.op = "<=" -> VersionLess(v, range.version) \/ v = range.version
      [] range.op = ">" -> VersionLess(range.version, v)
      [] OTHER -> VersionLess(range.version, v) \/ v = range.version

\* The (entry, repository name) pairs of the enabled repositories in the
\* order the loops of run visit them.
Available(rs) ==
    LET F[n \in 0..Len(rs)] ==
            IF n = 0 THEN << >>
            ELSE IF rs[n].enabled /\ rs[n].index.some
                 THEN F[n - 1] \o [k \in 1..Len(rs[n].index.packages) |->
                                      [entry |-> rs[n].index.packages[k],
                                       repo |-> rs[n].name]]
                 ELSE F[n - 1]
    IN F[Len(rs)]

\* The deps map of one entry: a later string of the same name replaces an
\* earlier one, a string whose constraint does not parse is left out.
DepsOf(entry) ==
    LET parsed == [k \in 1..Len(entry.depends) |-> parse_dep_string(entry.depends[k])]
        good == { k \in 1..Len(parsed) : parse_constraint(parsed[k].constraint).ok }
        last(n) == SetMax({ k \in good : parsed[k].name = n })
    IN [n \in { parsed[k].name : k \in good } |->
            parse_constraint(parsed[last(n)].constraint)]

\* RookeryDependencyProvider after the add_package calls: per name and
\* version the deps of the last entry added.
Provider(avail) ==
    LET key(k) == << avail[k].entry.name, parse_version(avail[k].entry.version) >>
        lastOf(k) == \A m \in 1..Len(avail) : key(m) = key(k) => m <= k
    IN { [name |-> avail[k].entry.name,
          version |-> parse_version(avail[k].entry.version),
          deps |-> DepsOf(avail[k].entry)] : k \in { m \in 1..Len(avail) : lastOf(m) } }

\* package_map after the insert calls: per name the last entry visited.
PackageMap(avail) ==
    LET names == { avail[k].entry.name : k \in 1..Len(avail) }
    IN [n \in names |-> avail[SetMax({ k \in 1..Len(avail) : avail[k].entry.name = n })]]

\* The members of S that the requested names need, directly or not.
Needed(S, roots) ==
    LET Step(R) == R \cup { y \in S : \E x \in R : y.name \in DOMAIN x.deps }
        F[n \in 0..Cardinality(S)] ==
            IF n = 0 THEN { x \in S : x.name \in roots } ELSE Step(F[n - 1])
    IN F[Cardinality(S)]

\* The consistent sets for the virtual root depending on roots: one version
\* per name, every dependency of a member met by a member, and nothing that
\* is not needed.
Consistent(provider, roots) ==
    { S \in SUBSET provider :
        /\ \A x, y \in S : x.name = y.name => x = y
        /\ \A r \in roots : \E x \in S : x.name = r
        /\ \A x \in S : \A d \in DOMAIN x.deps :
              \E y \in S : y.name = d /\ Contains(x.deps[d], y.version)
        /\ Needed(S, roots) = S }

\* T has the names of S, none at a lower version and one at a higher.
Newer(T, S) ==
    /\ T # S
    /\ { x.name : x \in T } = { x.name : x \in S }
    /\ \A x \in S : \A y \in T : x.name = y.name => ~VersionLess(y.version, x.version)

\* What resolve may return: candidate versions are walked in descending
\* order, so a consistent set that no other one is newer than.
Solutions(provider, roots) ==
    LET all == Consistent(provider, roots)
    IN { S \in all : \A T \in all : ~Newer(T, S) }

(***************************************************************************)
(* cli::install::run, its steps.                                           *)
(***************************************************************************)
\* The arguments of a run: the names in command-line order.
SeqOfNames(S) ==
    LET F[n \in 0..Len(NameOrder)] ==
            IF n = 0 THEN << >>
            ELSE IF NameOrder[n] \in S THEN Append(F[n - 1], NameOrder[n])
                 ELSE F[n - 1]
    IN F[Len(NameOrder)]

Range(seq) == { seq[k] : k \in 1..Len(seq) }

\* run up to the lookup of the requested names: the early return when no
\* repository is configured, provider and package_map, not_found.
RunBegin(names, dry_run) ==
    /\ cmd.pc \in {"idle", "done"}
    /\ cmd.runs < MaxRuns
    /\ tx[1].pc = "idle"
    /\ LET packages == SeqOfNames(names)
           avail == Available(repos)
           package_map == PackageMap(avail)
           known(n) == n \in DOMAIN package_map
           unknown(n) == ~known(n)
           c == [NoCmd EXCEPT !.runs = cmd.runs + 1, !.packages = packages,
                              !.dry_run = dry_run,
                              !.start = [fs |-> fs, db |-> db, scripts |-> scripts,
                                         txdirs |-> txdirs]]
       IN cmd' =
            IF repos = << >>
            THEN [c EXCEPT !.pc = "done", !.result = "Ok"]
            ELSE LET d == [c EXCEPT !.package_map = package_map,
                                    !.provider = Provider(avail),
                                    !.not_found = SelectSeq(packages, unknown),
                                    !.root_packages = SelectSeq(packages, known)]
                 IN IF d.not_found # << >>
                    THEN [d EXCEPT !.pc = "done", !.result = "Some packages not found"]
                    ELSE IF d.root_packages = << >>
                         THEN [d EXCEPT !.pc = "done", !.result = "Ok"]
                         ELSE [d EXCEPT !.pc = "resolve"]
    /\ UNCHANGED << engine, repos, upd, signing >>

\* The orders a HashMap of the members of S may be iterated in.
Orders(S) ==
    { f \in [1..Cardinality(S) -> S] : \A i, j \in 1..Cardinality(S) : f[i] = f[j] => i = j }

\* resolve, then to_install from the solution through package_map.
Resolve ==
    /\ cmd.pc = "resolve"
    /\ LET sols == Solutions(cmd.provider, Range(cmd.root_packages))
       IN IF sols = {}
          THEN cmd' = [cmd EXCEPT !.pc = "done",
                                  !.result = "Could not resolve dependencies"]
          ELSE \E S \in sols : \E order \in Orders(S) :
                 LET to_install ==
                         [k \in 1..Len(order) |-> cmd.package_map[order[k].name]]
                 IN cmd' = [cmd EXCEPT !.solution = S, !.to_install = to_install,
                                       !.resolved = TRUE,
                                       !.pc = IF cmd.dry_run THEN "done" ELSE "download",
                                       !.result = IF cmd.dry_run THEN "Ok" ELSE @]
    /\ UNCHANGED << engine, repos, upd, signing >>

\* manager.download_packages(&download_list)?
Download ==
    /\ cmd.pc = "download"
    /\ \E ok \in BOOLEAN :
         cmd' = IF ok THEN [cmd EXCEPT !.pc = "verify", !.k = 1, !.downloaded = TRUE]
                ELSE [cmd EXCEPT !.pc = "done", !.downloaded = TRUE,
                                 !.result = "Failed to download"]
    /\ UNCHANGED << engine, repos, upd, signing >>

\* The Err arm of the verification loop, leaving the package out instead.
VerifyFailed_Skip(c) ==
    [c EXCEPT !.k = @ + 1,
              !.pc = IF c.k = Len(c.to_install) THEN "check" ELSE "verify"]

\* The Err arm of the verification loop: bail!.
VerifyFailed(c) == [c EXCEPT !.pc = "done", !.result = "Failed to download/verify"]

\* One iteration of the verification loop: download_and_verify_package.
Verify ==
    /\ cmd.pc = "verify"
    /\ \E ok \in BOOLEAN :
         cmd' = IF ok
                THEN [cmd EXCEPT !.verified = Append(@, cmd.to_install[cmd.k]),
                                 !.k = @ + 1,
                                 !.pc = IF cmd.k = Len(cmd.to_install)
                                        THEN "check" ELSE "verify"]
                ELSE VerifyFailed([cmd EXCEPT !.verify_failed = TRUE])
    /\ UNCHANGED << engine, repos, upd, signing >>

\* No package counts as installed.
AlreadyInstalled_None(d, verified) == {}

\* already_installed: the names of the verified packages get_package finds.
AlreadyInstalled(d, verified) ==
    { verified[k].entry.name : k \in { m \in 1..Len(verified) :
                                          HasPackage(d, verified[m].entry.name) } }

\* The rest of run up to builder.execute: Database::open, the filter of the
\* installed packages, the TransactionBuilder and its Transaction.
RunExecute ==
    /\ cmd.pc = "check"
    /\ LET already_installed == AlreadyInstalled(db, cmd.verified)
           fresh(v) == v.entry.name \notin already_installed
           packages_to_install == SelectSeq(cmd.verified, fresh)
           list == [k \in 1..Len(packages_to_install) |->
                       OpInstall(packages_to_install[k].entry.filename)]
       IN IF packages_to_install = << >>
          THEN /\ cmd' = [cmd EXCEPT !.pc = "done", !.result = "Ok"]
               /\ UNCHANGED << engine >>
          ELSE /\ cmd' = [cmd EXCEPT !.pc = "execute", !.created = TRUE,
                                     !.packages_to_install = packages_to_install]
               /\ \E t \in {now, now + 1} : Build(1, t, list)
               /\ UNCHANGED << fs, scripts, db, foreign_keys, scenario, pre >>
    /\ UNCHANGED << repos, upd, signing >>

\* builder.execute has returned: Ok or the error of the transaction.
RunReturn ==
    /\ cmd.pc = "execute"
    /\ tx[1].pc = "done"
    /\ cmd' = [cmd EXCEPT !.pc = "done",
                          !.result = IF tx[1].state = "Completed" /\ tx[1].err = NoErr
                                     THEN "Ok" ELSE "Installation transaction failed"]
    /\ tx' = [tx EXCEPT ![1] = IdleTx(@.id)]
    /\ UNCHANGED << fs, scripts, db, foreign_keys, txdirs, now, scenario, pre,
                    repos, upd, signing >>

(***************************************************************************)
(* RepoManager::update_all over the repositories RepoManager::new made     *)
(* (sorted by priority) and load_caches filled.                            *)
(***************************************************************************)
\* repos.iter().enumerate().filter(|(_, r)| r.enabled).map(|(i, _)| i)
EnabledIndices(rs) ==
    LET F[n \in 0..Len(rs)] ==
            IF n = 0 THEN << >>
            ELSE IF rs[n].enabled THEN Append(F[n - 1], n) ELSE F[n - 1]
    IN F[Len(rs)]

UpdateAllBegin ==
    /\ upd.pc = "idle"
    /\ upd' = [upd EXCEPT !.pc = "loop", !.j = 1,
                          !.enabled_indices = EnabledIndices(repos)]
    /\ UNCHANGED << engine, repos, cmd, signing >>

\* search_key_in_dir: the keys of the directory whose fingerprint matches;
\* read_dir's order decides which of them is returned.
search_key_in_dir(dir, fingerprint) ==
    { key \in dir : \/ Fingerprint(key) = fingerprint
                    \/ EndsWith(Fingerprint(key), fingerprint)
                    \/ EndsWith(fingerprint, Fingerprint(key)) }

\* find_repo_key: the keys it may return, the master keys first; it bails
\* when there is none.
find_repo_key(config, fingerprint) ==
    IF search_key_in_dir(config.master_keys, fingerprint) # {}
    THEN search_key_in_dir(config.master_keys, fingerprint)
    ELSE search_key_in_dir(config.packager_keys, fingerprint)

\* A check that accepts every signature.
verify_signature_Any(public_key, message, signature) == TRUE

\* signing::verify_signature(public_key, message, signature)
verify_signature(public_key, message, signature) ==
    signature.signer = public_key /\ signature.over = message

\* Repository::save_cache: create_dir_all, then repo.toml, then
\* packages.json, each of which may fail.
save_cache(repo, save) ==
    CASE save = "ok" -> [repo EXCEPT !.cached_meta = repo.metadata,
                                     !.cached = repo.index]
      [] save = "packages.json failed" -> [repo EXCEPT !.cached_meta = repo.metadata]
      [] OTHER -> repo

\* A failing call that also removes the repository's cache files.
bail_CacheRemoved(repo, reason) ==
    [repo |-> [repo EXCEPT !.cached_meta = NoMeta, !.cached = NoIndex],
     outcome |-> reason]

\* bail! and ? of update_repo_by_index: it returns the error and has not
\* touched the repository.
bail(repo, reason) == [repo |-> repo, outcome |-> reason]

\* update_repo_by_index: what it returns (Ok(true) is "updated", Ok(false)
\* "unchanged", an Err its message) and what it makes of the repository.
\* key is the key find_repo_key returned, NoKey when it found none or was
\* not called.
update_repo_by_index(repo, config, metadata, bytes, signature, key, save) ==
    LET index == bytes.index
        changed == ~repo.index.some \/ repo.index.generated # index.generated
        updated == [repo EXCEPT !.metadata = metadata, !.index = index,
                                !.public_key = key]
    IN IF ~metadata.some THEN bail(repo, "Failed to fetch repository metadata")
       ELSE IF ~bytes.fetched THEN bail(repo, "Failed to fetch package index")
       ELSE IF signature.kind = "send failed" THEN bail(repo, "Failed to fetch signature")
       ELSE IF signature.kind = "malformed" THEN bail(repo, "Failed to parse signature")
       ELSE IF signature.kind = "envelope" /\ key = NoKey
            THEN bail(repo, "Repository signing key not found")
       ELSE IF signature.kind = "envelope" /\ ~verify_signature(key, bytes, signature)
            THEN bail(repo, "Package index signature verification failed")
       ELSE IF signature.kind = "absent" /\ ~config.allow_untrusted
            THEN bail(repo, "Package index signature not found")
       ELSE IF ~bytes.parses THEN bail(repo, "Failed to parse package index")
       ELSE [repo |-> save_cache(updated, save),
             outcome |-> IF save # "ok" THEN "Failed to write cache"
                         ELSE IF changed THEN "updated" ELSE "unchanged"]

\* What the server may answer.  The run of update_all over several
\* repositories ("update") meets a server with one signing key and two
\* indices; the run over one repository ("verify") meets every answer.
Metadatas ==
    IF scenario = "update" THEN {NoMeta, RepoMetadata("AB")}
    ELSE {NoMeta} \cup {RepoMetadata(f) : f \in Fingerprints}

FetchedBytes ==
    IF scenario = "update"
    THEN {NoBytes, Json(PackageIndex(1, << >>)), Json(PackageIndex(2, << >>))}
    ELSE {NoBytes, Garbage, Json(PackageIndex(1, << >>)),
          Json(PackageIndex(1, << Bar10 >>)), Json(PackageIndex(2, << >>))}

\* Other bytes than the fetched ones.
OtherBytes == Json(PackageIndex(2, << Foo15 >>))

Signatures(bytes) ==
    IF scenario = "update" THEN {NoSignature, Signature("kA", bytes)}
    ELSE {NoSignature,
          [kind |-> "send failed", signer |-> NoKey, over |-> NoBytes],
          [kind |-> "malformed", signer |-> NoKey, over |-> NoBytes]}
         \cup { Signature(k, o) : k \in Keys, o \in {bytes, OtherBytes} }

SaveOutcomes ==
    IF scenario = "update" THEN {"ok", "create_dir_all failed"}
    ELSE {"ok", "create_dir_all failed", "packages.json failed"}

\* One iteration of update_all's loop, its call: update_repo_by_index(idx).
\* Answers the call does not get to read are left at their defaults.
UpdateRepo ==
    /\ upd.pc = "loop"
    /\ upd.j <= Len(upd.enabled_indices)
    /\ LET idx == upd.enabled_indices[upd.j]
           repo == repos[idx]
       IN \E metadata \in Metadatas, bytes \in FetchedBytes, save \in SaveOutcomes :
          \E signature \in Signatures(bytes) :
          \E key \in IF signature.kind = "envelope"
                        /\ find_repo_key(upd.config, metadata.fingerprint) # {}
                     THEN find_repo_key(upd.config, metadata.fingerprint)
                     ELSE {NoKey} :
            LET r == update_repo_by_index(repo, upd.config, metadata, bytes,
                                          signature, key, save)
                stored == r.outcome \in {"updated", "unchanged", "Failed to write cache"}
            IN /\ ~metadata.some => bytes = NoBytes
               /\ ~bytes.fetched => signature = NoSignature
               /\ ~stored => save = "ok"
               /\ repos' = [repos EXCEPT ![idx] = r.repo]
               /\ upd' = [upd EXCEPT !.pc = "match",
                                     !.attempted = Append(@, idx),
                                     !.last = [called |-> TRUE, idx |-> idx,
                                               before |-> << repo >>,
                                               metadata |-> metadata,
                                               bytes |-> bytes,
                                               signature |-> signature,
                                               key |-> key,
                                               outcome |-> r.outcome]]
    /\ UNCHANGED << engine, cmd, signing >>

\* The match of update_all that drops the Err arm.
Record_DropFailed(result, repo_name, outcome) ==
    CASE outcome = "updated" -> [result EXCEPT !.updated = Append(@, repo_name)]
      [] outcome = "unchanged" -> [result EXCEPT !.unchanged = Append(@, repo_name)]
      [] OTHER -> result

\* The match of update_all on what update_repo_by_index returned.
Record(result, repo_name, outcome) ==
    CASE outcome = "updated" -> [result EXCEPT !.updated = Append(@, repo_name)]
      [] outcome = "unchanged" -> [result EXCEPT !.unchanged = Append(@, repo_name)]
      [] OTHER -> [result EXCEPT !.failed =
                      Append(@, [name |-> repo_name, reason |-> outcome])]

\* One iteration of update_all's loop, its match on the call's result.
UpdateMatch ==
    /\ upd.pc = "match"
    /\ upd' = [upd EXCEPT !.pc = "loop", !.j = @ + 1, !.last = NoCall,
                          !.result = Record(@, repos[upd.last.idx].name,
                                            upd.last.outcome)]
    /\ UNCHANGED << engine, repos, cmd, signing >>

\* update_all returns Ok(result).
UpdateAllReturn ==
    /\ upd.pc = "loop"
    /\ upd.j > Len(upd.enabled_indices)
    /\ upd' = [upd EXCEPT !.pc = "done"]
    /\ UNCHANGED << engine, repos, cmd, signing >>

(***************************************************************************)
(* RepoManager::new and RepoManager::find_package.                         *)
(***************************************************************************)
\* The repositories in the order of the configuration.
sort_by_key_Unsorted(rs) == rs

\* repos.sort_by_key(|r| r.priority): a stable sort, the first repository of
\* the lowest priority comes first.
RECURSIVE sort_by_key(_)
sort_by_key(rs) ==
    IF rs = << >> THEN << >>
    ELSE LET lowest == SetMin({ rs[i].priority : i \in 1..Len(rs) })
             first == SetMin({ i \in 1..Len(rs) : rs[i].priority = lowest })
         IN << rs[first] >>
            \o sort_by_key(SubSeq(rs, 1, first - 1) \o SubSeq(rs, first + 1, Len(rs)))

\* PackageIndex::find_package: the first entry of that name, if any.
index_find_package(index, name) ==
    LET hits == { k \in 1..Len(index.packages) : index.packages[k].name = name }
    IN IF hits = {} THEN << >> ELSE << index.packages[SetMin(hits)] >>

\* RepoManager::find_package: the first enabled repository, in the order of
\* repos, whose index has an entry of that name.
find_package(rs, name) ==
    LET hits == { i \in 1..Len(rs) : /\ rs[i].enabled
                                      /\ rs[i].index.some
                                      /\ index_find_package(rs[i].index, name) # << >> }
    IN IF hits = {} THEN [NoResult EXCEPT !.called = TRUE, !.name = name]
       ELSE [called |-> TRUE, name |-> name, some |-> TRUE,
             repository |-> rs[SetMin(hits)].name,
             package |-> index_find_package(rs[SetMin(hits)].index, name)]

\* RepoManager::new followed by load_caches: repos holds the configured
\* repositories, which are sorted.
RepoManagerNew ==
    /\ cmd.pc = "idle"
    /\ repos' = sort_by_key(repos)
    /\ cmd' = [cmd EXCEPT !.pc = "manager"]
    /\ UNCHANGED << engine, upd, signing >>

\* A call of find_package on the manager.
FindPackage(name) ==
    /\ cmd.pc = "manager"
    /\ cmd' = [cmd EXCEPT !.found = find_package(repos, name)]
    /\ UNCHANGED << engine, repos, upd, signing >>

(***************************************************************************)
(* signing::load_signing_key on the file config.signing.user_signing_key.  *)
(***************************************************************************)
\* metadata.mode() & 0o777
PermissionMask == 511
PermissionBits(mode) == mode % (PermissionMask + 1)

\* 0o600
OwnerReadWrite == 384

\* What the key file may hold: a key file generate_key wrote, or text that
\* is no TOML, has no secret-key, or whose secret-key is not base64 or not
\* 32 bytes long.
KeyFileContents == {"well-formed", "not toml", "no secret-key", "not base64",
                    "wrong length"}

\* The errors reading and parsing the key file end in.
ParseError(content) ==
    CASE content = "not toml" -> "toml parse error"
      [] content = "no secret-key" -> "Missing secret-key in key file"
      [] content = "not base64" -> "base64 decode error"
      [] content = "wrong length" -> "Invalid secret key length"
      [] OTHER -> "none"

Loaded(key) == [called |-> TRUE, ok |-> TRUE, key |-> key, error |-> "none"]
LoadError(error) == [called |-> TRUE, ok |-> FALSE, key |-> "none", error |-> error]

\* load_signing_key without its permission check.
load_signing_key_Unchecked(file) ==
    IF ~file.exists THEN LoadError("Signing key not found")
    ELSE IF file.content # "well-formed" THEN LoadError(ParseError(file.content))
    ELSE Loaded("secret")

\* load_signing_key (on Unix): the Result it returns.
load_signing_key(file) ==
    IF ~file.exists THEN LoadError("Signing key not found")
    ELSE IF PermissionBits(file.mode) # OwnerReadWrite
         THEN LoadError("Signing key has insecure permissions")
    ELSE IF file.content # "well-formed" THEN LoadError(ParseError(file.content))
    ELSE Loaded("secret")

\* A call of load_signing_key.
LoadSigningKey ==
    /\ ~signing.loaded.called
    /\ signing' = [signing EXCEPT !.loaded = load_signing_key(signing.file)]
    /\ UNCHANGED << engine, repos, upd, cmd >>

(***************************************************************************)
(* Database::add_package, remove_package, get_package and list_packages    *)
(* called on a database of their own.                                      *)
(***************************************************************************)
\* The InstalledPackage a SELECT builds from the columns of a row.
InstalledPackage(row) == [name |-> row.name, version |-> row.version]

\* The rows in the order of their ids.
list_packages_ByRowId(d) ==
    LET F[n \in 0..SetMax({0} \cup {r.id : r \in d.packages})] ==
            IF n = 0 THEN << >>
            ELSE IF \E r \in d.packages : r.id = n
                 THEN Append(F[n - 1],
                             InstalledPackage(CHOOSE r \in d.packages : r.id = n))
                 ELSE F[n - 1]
    IN F[SetMax({0} \cup {r.id : r \in d.packages})]

\* Database::list_packages: SELECT ... FROM packages ORDER BY name.
list_packages(d) ==
    LET F[n \in 0..Len(NameOrder)] ==
            IF n = 0 THEN << >>
            ELSE IF HasPackage(d, NameOrder[n])
                 THEN Append(F[n - 1], InstalledPackage(get_package(d, NameOrder[n])))
                 ELSE F[n - 1]
    IN F[Len(NameOrder)]

\* The InstalledPackage records a caller may pass.
InstalledPackages == [name : Pkgs, version : {1, 2}]

\* db.add_package(&pkg): Err on a name that is present.
DbAddPackage(pkg) ==
    /\ cmd.db_call.calls < MaxCalls
    /\ db' = IF CanAddPackage(db, pkg) THEN add_package(db, pkg) ELSE db
    /\ cmd' = [cmd EXCEPT !.db_call = [calls |-> @.calls + 1, op |-> "add_package",
                                        pkg |-> << pkg >>, name |-> pkg.name,
                                        ok |-> CanAddPackage(db, pkg),
                                        before |-> list_packages(db)]]
    /\ UNCHANGED << fs, scripts, foreign_keys, txdirs, now, scenario, tx, pre,
                    repos, upd, signing >>

\* db.remove_package(name): Ok(rows > 0).
DbRemovePackage(name) ==
    /\ cmd.db_call.calls < MaxCalls
    /\ db' = remove_package(db, name, foreign_keys)
    /\ cmd' = [cmd EXCEPT !.db_call = [calls |-> @.calls + 1, op |-> "remove_package",
                                        pkg |-> << >>, name |-> name,
                                        ok |-> HasPackage(db, name),
                                        before |-> list_packages(db)]]
    /\ UNCHANGED << fs, scripts, foreign_keys, txdirs, now, scenario, tx, pre,
                    repos, upd, signing >>

(***************************************************************************)
(* Specifications.                                                         *)
(***************************************************************************)
Next ==
    \/ \E p \in Procs : New(p)
    \/ \E p \in Procs : BuilderExecute(p)
    \/ \E p \in Procs, a \in Archives : QueueInstall(p, a)
    \/ \E p \in Procs, n \in Pkgs : QueueRemove(p, n)
    \/ \E p \in Procs, a \in Archives : QueueUpgrade(p, a)
    \/ \E p \in Procs : ExecuteBegin(p)
    \/ \E p \in Procs : InstallBegin(p)
    \/ \E p \in Procs : InstallFile(p)
    \/ \E p \in Procs : InstallAddPackage(p)
    \/ \E p \in Procs : InstallAddFile(p)
    \/ \E p \in Procs : InstallFinish(p)
    \/ \E p \in Procs : SaveJournalCreate(p)
    \/ \E p \in Procs : SaveJournalWrite(p)
    \/ \E p \in Procs : RemoveBegin(p)
    \/ \E p \in Procs : RemoveFile(p)
    \/ \E p \in Procs : RemoveFinish(p)
    \/ \E p \in Procs : UpgradeBegin(p)
    \/ \E p \in Procs : UpgradeInstallBegin(p)
    \/ \E p \in Procs : UpgradeFinish(p)
    \/ \E p \in Procs : Rollback(p)
    \/ \E p \in Procs : Commit(p)
    \/ \E p \in Procs : Cleanup(p)
    \/ \E p \in Procs : Return(p)

\* Sequential transactions; the user may edit configuration files in between.
NextSeq ==
    \/ Next
    \/ \E path \in ConfigPaths : UserEdit(path)
    \/ \E path \in UnownedPaths : UserCreate(path)

Spec == Init /\ [][NextSeq]_vars

\* Filesystem and database calls may fail.
SpecFault == InitFault /\ [][Next]_vars

\* A process may be killed while execute runs; recovery follows.
NextKill ==
    \/ Next
    \/ \E p \in Procs : Crash(p)
    \/ \E p \in Procs, t \in TxIds : Resume(p, t)
    \/ \E t \in TxIds : Recover(t)

SpecKill == InitKill /\ [][NextKill]_vars

SpecConc == InitConc /\ [][Next]_vars

\* The repository lists RepoManager::new can make: distinct names, sorted by
\* priority, each with the cache its directory holds.
RepoLists ==
    LET Caches == {NoIndex} \cup {PackageIndex(g, << >>) : g \in Generations}
        Sizes == { m \in 0..MaxRepos : m <= Cardinality(RepoNames) }
        Names == UNION { { f \in [1..m -> RepoNames] :
                             \A i, j \in 1..m : f[i] = f[j] => i = j } : m \in Sizes }
        Settings(m) == { f \in [1..m -> Priorities \X BOOLEAN \X Caches] :
                            \A i, j \in 1..m : i < j => f[i][1] <= f[j][1] }
    IN UNION { { [k \in 1..Len(ns) |-> Repository(ns[k], st[k][1], st[k][2], st[k][3])] :
                    st \in Settings(Len(ns)) } : ns \in Names }

InitUpdate ==
    /\ InitCommon
    /\ scenario = "update"
    /\ repos \in RepoLists
    /\ upd = [NoUpdate EXCEPT !.config = SigningConfig(FALSE, {"kA"}, {})]
    /\ cmd = NoCmd
    /\ signing = NoSigning

NextUpdate == UpdateAllBegin \/ UpdateRepo \/ UpdateMatch \/ UpdateAllReturn

\* rookpkg update: RepoManager::new, load_caches, update_all.
SpecUpdate == InitUpdate /\ [][NextUpdate]_vars

\* The signing configurations: whether unsigned indices are allowed and which
\* keys each key directory holds.
SigningConfigs ==
    { SigningConfig(u, m, k) : u \in BOOLEAN, m \in SUBSET Keys, k \in SUBSET Keys }

\* One enabled repository, with or without a cache, under every signing
\* configuration and every answer of the server.
InitVerify ==
    /\ InitCommon
    /\ scenario = "verify"
    /\ repos \in { << Repository("core", 1, TRUE, c) >> :
                     c \in {NoIndex} \cup {PackageIndex(g, << >>) : g \in Generations} }
    /\ upd \in { [NoUpdate EXCEPT !.config = c] : c \in SigningConfigs }
    /\ cmd = NoCmd
    /\ signing = NoSigning

\* rookpkg update of one repository.
SpecVerify == InitVerify /\ [][NextUpdate]_vars

\* The repositories of a configuration, in its order: distinct names, any
\* priorities, enabled or not, with the index each one's cache holds.
ConfiguredRepos ==
    LET Indices == {NoIndex, PackageIndex(1, << Foo15 >>), PackageIndex(1, << Bar10 >>),
                    PackageIndex(1, << Foo21, Foo15 >>)}
        Order == << "core", "extra", "testing" >>
        Settings(m) == [1..m -> Priorities \X BOOLEAN \X Indices]
    IN UNION { { [k \in 1..m |-> Repository(Order[k], st[k][1], st[k][2], st[k][3])] :
                    st \in Settings(m) } : m \in { n \in 0..MaxRepos : n <= Len(Order) } }

InitFind ==
    /\ InitCommon
    /\ scenario = "find"
    /\ repos \in ConfiguredRepos
    /\ upd = NoUpdate
    /\ cmd = NoCmd
    /\ signing = NoSigning

NextFind == RepoManagerNew \/ \E name \in RequestNames : FindPackage(name)

\* A manager made from a configuration and asked for packages.
SpecFind == InitFind /\ [][NextFind]_vars

\* st_mode of a regular file: S_IFREG, with or without the set-user-ID bit,
\* and the nine permission bits.
KeyFileModes ==
    LET Permissions == {0, 128, 256, 320, 384, 385, 388, 392, 400, 416, 420, 432,
                        438, 448, 493, 511}
    IN { 32768 + special + perms : special \in {0, 2048}, perms \in Permissions }

KeyFiles ==
    {NoKeyFile}
    \cup { [exists |-> TRUE, mode |-> m, content |-> c] :
               m \in KeyFileModes, c \in KeyFileContents }

InitKey ==
    /\ InitCommon
    /\ scenario = "key"
    /\ repos = << >>
    /\ upd = NoUpdate
    /\ cmd = NoCmd
    /\ signing \in { [NoSigning EXCEPT !.file = f] : f \in KeyFiles }

NextKey == LoadSigningKey

\* A command that loads the user's signing key.
SpecKey == InitKey /\ [][NextKey]_vars

\* Database::open on a new file.
InitDb == InitEngine /\ scenario = "database"

NextDb ==
    \/ \E pkg \in InstalledPackages : DbAddPackage(pkg)
    \/ \E name \in Pkgs : DbRemovePackage(name)

\* A caller adding and removing packages of a new database.
SpecDb == InitDb /\ [][NextDb]_vars

\* The package lists an index may hold: entries of different versions, in
\* any order.
IndexLists ==
    LET Catalog == {Foo15, Foo21, Bar10, Bar10Foo}
        Lists == UNION { [1..m -> Catalog] : m \in 0..3 }
    IN { l \in Lists :
            \A i, j \in 1..Len(l) :
                i < j => (l[i] # l[j] /\ << l[i].name, l[i].version >>
                                            # << l[j].name, l[j].version >>) }

\* No repository, one repository, or two enabled ones sharing the entries.
InstallRepoLists ==
    {<< >>}
    \cup { << Repository("core", 1, e, PackageIndex(1, l)) >> :
                e \in BOOLEAN, l \in IndexLists }
    \cup UNION { { << Repository("core", 1, TRUE, PackageIndex(1, SubSeq(l, 1, k))),
                      Repository("extra", 2, TRUE,
                                 PackageIndex(1, SubSeq(l, k + 1, Len(l)))) >> :
                      k \in 1..(Len(l) - 1) } : l \in IndexLists }

InitInstall ==
    /\ InitCommon
    /\ scenario = "install"
    /\ repos \in InstallRepoLists
    /\ upd = NoUpdate
    /\ cmd = NoCmd
    /\ signing = NoSigning

\* rookpkg install, run after run, with the transaction it executes.
NextInstall ==
    \/ \E names \in SUBSET RequestNames, dry_run \in BOOLEAN : RunBegin(names, dry_run)
    \/ Resolve
    \/ Download
    \/ Verify
    \/ RunExecute
    \/ ExecuteBegin(1)
    \/ InstallBegin(1)
    \/ InstallFile(1)
    \/ InstallAddPackage(1)
    \/ InstallAddFile(1)
    \/ InstallFinish(1)
    \/ SaveJournalCreate(1)
    \/ SaveJournalWrite(1)
    \/ Rollback(1)
    \/ Commit(1)
    \/ Cleanup(1)
    \/ RunReturn

SpecInstall == InitInstall /\ [][NextInstall]_vars

(***************************************************************************)
(* Observations used by the properties.                                    *)
(***************************************************************************)
\* The database as its queries show it: packages by name, file and
\* dependency rows by the name of the package they join to ("" when the
\* row joins to no package).
OwnerName(d, pid) ==
    IF \E r \in d.packages : r.id = pid
    THEN (CHOOSE r \in d.packages : r.id = pid).name ELSE ""

DbView(d) ==
    [packages |-> {[name |-> r.name, version |-> r.version] : r \in d.packages},
     files |-> {[package |-> OwnerName(d, f.package_id), path |-> f.path,
                 is_config |-> f.is_config] : f \in d.files},
     deps |-> {[package |-> OwnerName(d, x.package_id), depends_on |-> x.depends_on] :
                 x \in d.deps}]

\* execute has returned on process p with the transaction in state st.
Ended(p, st) == tx[p].pc = "done" /\ tx[p].state = st

\* Root and database are what they were when transaction t began to execute.
Restored(t) ==
    /\ fs = pre[t].fs
    /\ scripts = pre[t].scripts
    /\ DbView(db) = DbView(pre[t].db)

IsPrefix(s, t) == Len(s) <= Len(t) /\ SubSeq(t, 1, Len(s)) = s

(***************************************************************************)
(* C1: whenever execute ends in RolledBack, the root filesystem and the    *)
(* database are what they were before execute began.                       *)
(***************************************************************************)
C1_RolledBackRestores ==
    \A p \in Procs : Ended(p, "RolledBack") => Restored(tx[p].id)

(***************************************************************************)
(* C2: the state of a transaction only moves Pending -> InProgress,        *)
(* InProgress -> Completed (every operation succeeded), InProgress ->      *)
(* RolledBack or InProgress -> Failed (an operation failed); Completed,    *)
(* RolledBack and Failed are never left.  Stated for the Transaction       *)
(* object of every process and for the state persisted in the              *)
(* transaction directory.                                                  *)
(***************************************************************************)
AllowedMove(from, to) ==
    \/ from = "Pending" /\ to = "InProgress"
    \/ from = "InProgress" /\ to \in {"Completed", "RolledBack", "Failed"}

C2_ObjectMoves(p) ==
    (tx[p].pc # "idle" /\ tx'[p].pc # "idle" /\ tx'[p].state # tx[p].state) =>
        /\ tx'[p].id = tx[p].id
        /\ AllowedMove(tx[p].state, tx'[p].state)
        /\ tx'[p].state = "Completed" =>
               tx[p].pc = "op" /\ tx[p].i > Len(tx[p].ops) /\ tx[p].err = NoErr
        /\ tx'[p].state \in {"RolledBack", "Failed"} =>
               tx[p].pc = "op_failed" /\ tx[p].err # NoErr

C2_PersistedMoves(t) ==
    (txdirs[t].exists /\ txdirs'[t].exists /\ txdirs'[t].state # txdirs[t].state) =>
        AllowedMove(txdirs[t].state, txdirs'[t].state)

\* C2: the state of a transaction, in memory and on disk, makes allowed moves only.
C2_StateMoves ==
    [][ /\ \A p \in Procs : C2_ObjectMoves(p)
        /\ \A t \in TxIds : C2_PersistedMoves(t) ]_vars

\* A transaction of two operations was rolled back after its second one failed.
C2_Witness ==
    \E p \in Procs : Ended(p, "RolledBack") /\ tx[p].i = 2 /\ txdirs[tx[p].id].state = "RolledBack"

(***************************************************************************)
(* C3: at most one transaction is InProgress on a root at any time: while  *)
(* one process executes its transaction no other process is executing one. *)
(***************************************************************************)
InProgress(p) == Executing(p) /\ tx[p].state = "InProgress"

\* C3: no two processes are InProgress on the root at the same time.
C3_MutualExclusion ==
    \A p, q \in Procs : (p # q /\ InProgress(p)) => ~InProgress(q)

(***************************************************************************)
(* C4: after any sequence of transactions, committed or rolled back, every *)
(* path of the files relation is owned by exactly one package of the       *)
(* packages relation: no path has two file rows and every file row refers  *)
(* to an installed package.                                                *)
(***************************************************************************)
Quiescent == \A p \in Procs : ~Executing(p)

OwnersOf(d, path) ==
    {r \in d.packages : \E f \in d.files : f.path = path /\ f.package_id = r.id}

\* C4: between transactions every file row has one path, one owner, installed.
C4_PathsOwnedByOnePackage ==
    Quiescent =>
        \A f \in db.files :
            /\ Cardinality(OwnersOf(db, f.path)) = 1
            /\ \E r \in db.packages : r.id = f.package_id
            /\ \A g \in db.files : g.path = f.path => g = f

(***************************************************************************)
(* C5: after every committed transaction (state Completed), every path the *)
(* database records as owned by a package exists on the root filesystem.   *)
(***************************************************************************)
OwnedPaths(d) == {f.path : f \in {x \in d.files : HasOwner(d, x.path)}}

\* C5: after a commit every owned path of the database exists on the root.
C5_NoGhostRecords ==
    \A p \in Procs :
        Ended(p, "Completed") => \A path \in OwnedPaths(db) : Exists(fs, path)

(***************************************************************************)
(* C6: when the process is killed while execute performs an Install, the   *)
(* persisted state of the transaction is InProgress, and once recovery has *)
(* inverted the journal found on disk the root filesystem and the database *)
(* are what they were before the transaction.                              *)
(***************************************************************************)
InstallSteps == {"inst_files", "inst_db", "save_journal", "save_journal_write"}

KilledInInstall(t) ==
    /\ pre[t].killed_at \in InstallSteps
    /\ \A k \in 1..Len(txdirs[t].ops) : txdirs[t].ops[k].kind = "Install"

\* No transaction has begun to execute after t.
Latest(t) == \A u \in TxIds : u > t => ~pre[u].taken

\* C6: killed during an Install the persisted state is InProgress, and after
\* recovery root and database are what they were before the transaction.
C6_KillDuringInstallRecovers ==
    \A t \in TxIds :
        (KilledInInstall(t) /\ Latest(t) /\ Quiescent) =>
            /\ ~pre[t].recovered => txdirs[t].state = "InProgress"
            /\ pre[t].recovered => Restored(t)

(***************************************************************************)
(* C7: at every moment of a transaction, also in the middle of a journal   *)
(* write, the journal file on disk is a complete, parseable prefix of the  *)
(* journal in memory.                                                      *)
(***************************************************************************)
C7_JournalPrefixPersistent ==
    \A p \in Procs :
        (tx[p].pc # "idle" /\ txdirs[tx[p].id].journal.present) =>
            /\ txdirs[tx[p].id].journal.complete
            /\ IsPrefix(txdirs[tx[p].id].journal.entries, tx[p].journal)

(***************************************************************************)
(* C8: when a step of the rollback that follows a failed operation fails,  *)
(* the transaction ends in state Failed, not RolledBack.                   *)
(***************************************************************************)
C8_FailedUndoGivesFailed ==
    \A p \in Procs :
        (tx[p].pc = "done" /\ tx[p].undo_failed) => tx[p].state = "Failed"

(***************************************************************************)
(* C10: when a committed Upgrade replaces a package owning an is_config    *)
(* file whose content the user modified after the install, the path still  *)
(* holds the user's content and the new package's version of the file is   *)
(* beside it under the suffix .new.                                        *)
(***************************************************************************)
DotNew(path) == IF path = "/etc/foo.conf" THEN "/etc/foo.conf.new" ELSE path

\* The is_config paths package n owned in database d.
ConfigFilesOf(d, n) ==
    {f.path : f \in {x \in d.files :
        x.is_config /\ \E r \in d.packages : r.name = n /\ r.id = x.package_id}}

NewContent(a, path) ==
    LET ar == Archive(a)
    IN ar.files[CHOOSE k \in 1..Len(ar.files) : ar.files[k].path = path].content

\* C10: a committed Upgrade keeps a modified config file and writes the new
\* version beside it as .new.
C10_UpgradeKeepsModifiedConfig ==
    \A p \in Procs :
        (Ended(p, "Completed") /\ Len(tx[p].ops) = 1 /\ tx[p].ops[1].kind = "Upgrade") =>
            \A path \in ConfigFilesOf(pre[tx[p].id].db, tx[p].ops[1].package) :
                pre[tx[p].id].fs[path] = UserContent =>
                    /\ fs[path] = UserContent
                    /\ fs[DotNew(path)] = NewContent(tx[p].ops[1].archive, path)

(***************************************************************************)
(* C9: an Install whose manifest contains a path that the database records *)
(* as owned by a different package fails: with a file-conflict error that  *)
(* names a conflicting path and its owner (or, before the check is         *)
(* reached, with the failure of the package's own pre_install script); the *)
(* attempt leaves the database and the root filesystem as they were, so    *)
(* the conflicting file keeps the owner's content; and when the rollback   *)
(* that follows has nothing older to undo, it changes neither.  A          *)
(* file-conflict error is never reported without such a path.              *)
(***************************************************************************)
\* The manifest entries of archive ar whose path a different package owns.
Clashes(ar) ==
    {k \in 1..Len(ar.files) :
        \E f \in db.files : \E r \in db.packages :
            f.path = ar.files[k].path /\ r.id = f.package_id /\ r.name # ar.name}

NamesClash(e, ar) ==
    \E k \in Clashes(ar) :
        /\ e.path = ar.files[k].path
        /\ \E f \in db.files : \E r \in db.packages :
               f.path = e.path /\ r.id = f.package_id /\ r.name = e.owner
        /\ e.owner # ar.name

C9_Attempt(p) ==
    (/\ tx[p].pc = "op"
     /\ tx[p].i <= Len(tx[p].ops)
     /\ CurOp(p).kind = "Install"
     /\ tx'[p] # tx[p]) =>
        LET ar == Archive(CurOp(p).archive)
        IN /\ Clashes(ar) # {} =>
                /\ tx'[p].pc = "op_failed"
                /\ \/ tx'[p].err.kind = "ScriptFailed" /\ "pre_install" \in ar.scripts
                   \/ tx'[p].err.kind = "FileConflict" /\ NamesClash(tx'[p].err, ar)
                /\ db' = db
                /\ fs' = fs
           /\ tx'[p].err.kind = "FileConflict" => Clashes(ar) # {}

C9_Afterwards(p) ==
    (/\ tx[p].pc = "op_failed"
     /\ tx[p].err.kind = "FileConflict"
     /\ CurOp(p).kind = "Install"
     /\ tx[p].i = 1
     /\ tx'[p].pc = "done") =>
        /\ db' = db
        /\ fs' = fs
        /\ fs'[tx[p].err.path] = pre[tx[p].id].fs[tx[p].err.path]
        /\ db' = pre[tx[p].id].db

HookNames(t) == [k \in 1..Len(t.hooks) |-> t.hooks[k].hook]

\* The step of process p runs hook h.
RunsHook(p, h) ==
    /\ Len(tx'[p].hooks) > 0
    /\ tx'[p].hooks[Len(tx'[p].hooks)].hook = h
    /\ tx'[p].hooks # tx[p].hooks

InUpgrade(p) ==
    /\ Executing(p)
    /\ tx[p].pc # "op_failed"
    /\ tx[p].i <= Len(tx[p].ops)
    /\ CurOp(p).kind = "Upgrade"

\* Archive ar is installed: its package row, its file rows, its files.
Installed(ar) ==
    /\ \E r \in db.packages : r.name = ar.name /\ r.version = ar.version
    /\ \A k \in 1..Len(ar.files) :
          /\ file_owner(db, ar.files[k].path) = ar.name
          /\ fs[ar.files[k].path] = ar.files[k].content

C11_PreUpgradeFirst(p) ==
    (InUpgrade(p) /\ RunsHook(p, "pre_upgrade")) =>
        /\ tx[p].pc = "op"
        /\ tx'[p].hooks = << [hook |-> "pre_upgrade", pkg |-> CurOp(p).package,
                              version |-> scripts[CurOp(p).package].sh["pre_upgrade"]] >>
        /\ db' = db
        /\ fs' = fs

C11_PostUpgradeLast(p) ==
    (InUpgrade(p) /\ RunsHook(p, "post_upgrade")) =>
        LET ar == Archive(CurOp(p).archive)
            e == tx'[p].hooks[Len(tx'[p].hooks)]
        IN /\ tx[p].pc = "up_post"
           /\ e.pkg = ar.name /\ e.version = ar.version
           /\ Installed(ar)
           /\ db' = db
           /\ fs' = fs

\* The Upgrade is over: what it ran.
C11_Schedule(p) ==
    (InUpgrade(p) /\ tx[p].pc = "up_post" /\ tx'[p].pc = "op") =>
        LET ar == Archive(CurOp(p).archive)
        IN /\ HookNames(tx'[p]) \in {<< >>, <<"pre_upgrade">>, <<"post_upgrade">>,
                                     <<"pre_upgrade", "post_upgrade">>}
           /\ ("post_upgrade" \in ar.scripts) <=>
                  (\E k \in 1..Len(tx'[p].hooks) : tx'[p].hooks[k].hook = "post_upgrade")

\* No step of an Upgrade runs an install or a remove hook.
C11_NoOtherHook(p) ==
    InUpgrade(p) =>
        \A h \in {"pre_install", "post_install", "pre_remove", "post_remove"} :
            ~RunsHook(p, h)

ConfigFilesIn(a) ==
    {Archive(a).files[k].path : k \in {j \in 1..Len(Archive(a).files) :
                                          Archive(a).files[j].is_config}}

InstallThenRemove(p, a) ==
    /\ Ended(p, "Completed")
    /\ tx[p].ops = << OpInstall(a), OpRemove(Archive(a).name) >>
    /\ ~HasPackage(pre[tx[p].id].db, Archive(a).name)

C12_InstallRemoveRoundTrip ==
    \A p \in Procs : \A a \in Archives :
        InstallThenRemove(p, a) =>
            \A path \in Paths \ ConfigFilesIn(a) : fs[path] = pre[tx[p].id].fs[path]

(***************************************************************************)
(* C13: when every operation succeeded, execute first persists the state   *)
(* Completed and only then removes the transaction directory; a failing    *)
(* removal does not make execute fail; after a successful removal nothing  *)
(* of the directory remains.                                               *)
(***************************************************************************)
\* Every operation has returned Ok and execute has not yet marked the commit.
AllSucceeded(p) == tx[p].pc = "op" /\ tx[p].i > Len(tx[p].ops)

C13_PersistFirst(p) ==
    (AllSucceeded(p) /\ tx'[p] # tx[p]) =>
        /\ txdirs'[tx[p].id].exists
        /\ txdirs'[tx[p].id].state = "Completed"
        /\ tx'[p].state = "Completed"

C13_ThenRemove(t) ==
    (txdirs[t].exists /\ ~txdirs'[t].exists) =>
        /\ txdirs[t].state = "Completed"
        /\ txdirs'[t] = NoTxDir

C13_RemovalNeverFails(p) ==
    (tx[p].pc = "cleanup" /\ tx'[p] # tx[p]) =>
        /\ tx'[p].pc = "done"
        /\ tx'[p].state = "Completed"
        /\ tx'[p].err = NoErr
        /\ txdirs'[tx[p].id] \in {NoTxDir, txdirs[tx[p].id]}

\* C13: Completed is persisted before the directory is removed, and the
\* removal cannot make execute fail.
C13_CommitThenCleanup ==
    [][ /\ \A p \in Procs : C13_PersistFirst(p) /\ C13_RemovalNeverFails(p)
        /\ \A t \in TxIds : C13_ThenRemove(t) ]_vars

\* execute returned Ok although the directory could not be removed: it is
\* still there, with the state Completed.
C13_Witness ==
    \E p \in Procs :
        /\ Ended(p, "Completed")
        /\ tx[p].err = NoErr
        /\ Len(tx[p].ops) > 0
        /\ txdirs[tx[p].id].exists
        /\ txdirs[tx[p].id].state = "Completed"

(***************************************************************************)
(* C14: the operations of a transaction are executed one at a time in      *)
(* exactly the order they were queued, through Transaction::install /      *)
(* remove / upgrade or through TransactionBuilder; once an operation has   *)
(* failed, no later queued operation is executed.                          *)
(***************************************************************************)
C14_InOrder(p) ==
    /\ IsPrefix(tx'[p].executed, tx'[p].queued)
    /\ Len(tx'[p].executed) <= Len(tx[p].executed) + 1
    /\ (Len(tx'[p].executed) = Len(tx[p].executed) + 1) => tx[p].pc = "op"

C14_NoneAfterFailure(p) ==
    (tx[p].err # NoErr /\ tx'[p].pc # "idle") =>
        tx'[p].executed = tx[p].executed

\* C14: executed is always a prefix of queued, grows by one operation between
\* operations only, and stops growing at the first failure.
C14_QueuedOrder ==
    [][ \A p \in Procs : C14_InOrder(p) /\ C14_NoneAfterFailure(p) ]_vars

\* A transaction of two different operations whose first operation failed:
\* it ended rolled back with the second never executed.
C14_Witness ==
    \E p \in Procs :
        /\ Ended(p, "RolledBack")
        /\ Len(tx[p].queued) = 2
        /\ tx[p].queued[1] # tx[p].queued[2]
        /\ tx[p].executed = << tx[p].queued[1] >>

(***************************************************************************)
(* C20: update_all attempts every enabled repository whatever happened to  *)
(* the earlier ones; each enabled repository is in exactly one of updated, *)
(* unchanged, failed, so total() is the number of enabled repositories;    *)
(* disabled repositories are in none.                                      *)
(***************************************************************************)
Occurrences(seq, x) == Cardinality({ i \in 1..Len(seq) : seq[i] = x })

FailedNames(result) == [i \in 1..Len(result.failed) |-> result.failed[i].name]

Listed(result, n) ==
    Occurrences(result.updated, n) + Occurrences(result.unchanged, n)
        + Occurrences(FailedNames(result), n)

EnabledRepos == { i \in 1..Len(repos) : repos[i].enabled }

\* C20: when update_all has returned, it has attempted exactly the enabled
\* repositories, each is listed once, and no disabled one is listed.
C20_UpdateAllIsolatesFailures ==
    upd.pc = "done" =>
        /\ { upd.attempted[i] : i \in 1..Len(upd.attempted) } = EnabledRepos
        /\ Len(upd.attempted) = Cardinality(EnabledRepos)
        /\ total(upd.result) = Cardinality(EnabledRepos)
        /\ \A i \in 1..Len(repos) :
              Listed(upd.result, repos[i].name) = IF repos[i].enabled THEN 1 ELSE 0

\* The first enabled repository failed, a later one was updated, and a
\* disabled repository is configured.
C20_Witness ==
    /\ upd.pc = "done"
    /\ Len(upd.result.failed) = 1
    /\ Len(upd.result.updated) + Len(upd.result.unchanged) = 1
    /\ Len(upd.attempted) = 2
    /\ upd.result.failed[1].name = repos[upd.attempted[1]].name
    /\ \E i \in 1..Len(repos) : ~repos[i].enabled

(***************************************************************************)
(* C15: after a successful resolution in the install command, each         *)
(* declared dependency (name and version constraint) of each package of    *)
(* the install set is met by another member of the install set at a        *)
(* version within the constraint; no declared dependency is ignored.       *)
(***************************************************************************)
\* The version meets the dependency string as the dependency grammar reads it.
Meets(dep, version) ==
    Contains([op |-> IF dep.op = "" THEN "*" ELSE dep.op,
              version |-> parse_version(dep.version)], parse_version(version))

C15_DependenciesMet ==
    cmd.resolved =>
        \A k \in 1..Len(cmd.to_install) :
            \A j \in 1..Len(cmd.to_install[k].entry.depends) :
                \E m \in 1..Len(cmd.to_install) :
                    /\ m # k
                    /\ cmd.to_install[m].entry.name
                           = cmd.to_install[k].entry.depends[j].name
                    /\ Meets(cmd.to_install[k].entry.depends[j],
                             cmd.to_install[m].entry.version)

(***************************************************************************)
(* C16: for every package of the resolver's solution, the entry queued     *)
(* for download and install is the entry of the version the resolver       *)
(* selected, whatever the order of the entries in the indices.             *)
(***************************************************************************)
C16_QueuedVersionIsSelected ==
    cmd.resolved =>
        /\ Len(cmd.to_install) = Cardinality(cmd.solution)
        /\ \A x \in cmd.solution :
              \E k \in 1..Len(cmd.to_install) :
                  /\ cmd.to_install[k].entry.name = x.name
                  /\ parse_version(cmd.to_install[k].entry.version) = x.version

(***************************************************************************)
(* C17: a resolved package that is already installed at a version meeting  *)
(* all constraints is left out of the transaction's operation list; if     *)
(* every resolved package is already installed, no transaction is created  *)
(* and neither the filesystem nor the database changes.                    *)
(***************************************************************************)
\* The run is past download and verification and looks at the database.
Checking == cmd.pc = "check"

InstalledNames == { r.name : r \in db.packages }

VerifiedNames == { cmd.verified[k].entry.name : k \in 1..Len(cmd.verified) }

C17_InstalledLeftOut ==
    Checking =>
        \A k \in 1..Len(tx'[1].ops) :
            tx'[1].ops[k].package \in VerifiedNames \ InstalledNames

C17_NothingNew ==
    (Checking /\ VerifiedNames \subseteq InstalledNames) =>
        /\ cmd'.pc = "done"
        /\ cmd'.result = "Ok"
        /\ ~cmd'.created
        /\ UNCHANGED << fs, scripts, db, txdirs, tx, now >>
        /\ fs = cmd.start.fs
        /\ db = cmd.start.db
        /\ txdirs = cmd.start.txdirs

\* C17: the step that builds the transaction queues no installed package,
\* and makes no transaction when every verified package is installed.
C17_InstalledPackagesSkipped ==
    [][ C17_InstalledLeftOut /\ C17_NothingNew ]_vars

\* A second run resolved to two packages, one of them installed by the first
\* run, and queued the other one only.
C17_Witness ==
    /\ cmd.pc = "execute"
    /\ cmd.runs = 2
    /\ Len(cmd.verified) = 2
    /\ Len(tx[1].ops) = 1
    /\ VerifiedNames \cap InstalledNames # {}

(***************************************************************************)
(* C18: if a requested name is in the index of no enabled repository (as   *)
(* when all indices are empty), the install command fails, reporting every *)
(* unknown name, and neither resolves, downloads nor makes a transaction.  *)
(***************************************************************************)
\* The names some enabled repository's index lists.
IndexedNames ==
    { n \in RequestNames :
        \E i \in 1..Len(repos) :
            /\ repos[i].enabled
            /\ \E k \in 1..Len(repos[i].index.packages) :
                  repos[i].index.packages[k].name = n }

Unknown == Range(cmd.packages) \ IndexedNames

C18_UnknownNameFails ==
    (cmd.pc # "idle" /\ Unknown # {}) =>
        /\ cmd.pc = "done"
        /\ cmd.result = "Some packages not found"
        /\ Range(cmd.not_found) = Unknown
        /\ ~cmd.resolved /\ ~cmd.downloaded /\ ~cmd.created
        /\ fs = cmd.start.fs /\ db = cmd.start.db /\ txdirs = cmd.start.txdirs

(***************************************************************************)
(* C19: if the download or the signature verification of one package of    *)
(* the install list fails, the install command aborts before a transaction *)
(* is created: no package of the list is installed, and the database and   *)
(* the root filesystem are unchanged.                                      *)
(***************************************************************************)
C19_VerifyFailureAborts ==
    cmd.verify_failed =>
        /\ cmd.pc = "done"
        /\ cmd.result = "Failed to download/verify"
        /\ ~cmd.created
        /\ tx[1].pc = "idle"
        /\ fs = cmd.start.fs /\ db = cmd.start.db /\ txdirs = cmd.start.txdirs

\* The second package of the list failed verification after the first one
\* had passed.
C19_Witness ==
    /\ cmd.verify_failed
    /\ cmd.pc = "done"
    /\ Len(cmd.to_install) = 2
    /\ Len(cmd.verified) = 1

(***************************************************************************)
(* Index updates and signing (repository.rs).                              *)
(***************************************************************************)
\* update_all is matching the result of a call of update_repo_by_index.
Matching == upd.pc = "match" /\ upd.last.called
Before == upd.last.before[1]
After == repos[upd.last.idx]
SignatureFailures == {"Package index signature verification failed",
                      "Repository signing key not found"}

\* C21: when the signature over the fetched index bytes does not verify, or
\* the signing key cannot be found, the repository's update fails and its
\* in-memory metadata and index and its cache files are as they were before.
C21_FailedVerificationChangesNothing ==
    (Matching /\ upd.last.signature.kind = "envelope"
              /\ (upd.last.key = NoKey
                  \/ ~verify_signature(upd.last.key, upd.last.bytes, upd.last.signature)))
        => /\ upd.last.outcome \in SignatureFailures
           /\ After.metadata = Before.metadata
           /\ After.index = Before.index
           /\ After.cached_meta = Before.cached_meta
           /\ After.cached = Before.cached

\* A repository with a cached index whose fetched index, a different one,
\* came with a signature over other bytes.
C21_Witness ==
    /\ Matching
    /\ upd.last.outcome = "Package index signature verification failed"
    /\ Before.cached.some
    /\ upd.last.bytes.parses
    /\ upd.last.bytes.index # Before.index
    /\ upd.last.signature.over # upd.last.bytes

\* The fetched index passed verification: its signature verifies over the
\* fetched bytes with the key found, and the bytes parse.
PassedVerification ==
    /\ Matching
    /\ upd.last.signature.kind = "envelope"
    /\ upd.last.key # NoKey
    /\ verify_signature(upd.last.key, upd.last.bytes, upd.last.signature)
    /\ upd.last.bytes.parses

\* The fetched generation timestamp differs from the cached index's, or there
\* is no cached index.
GenerationDiffers ==
    \/ ~Before.cached.some
    \/ Before.cached.generated # upd.last.bytes.index.generated

\* C22: a repository whose fetched index passes verification is reported
\* updated, and its cached index replaced, exactly when the fetched
\* generation timestamp differs from the cached one (or nothing is cached);
\* otherwise it is reported unchanged and the cached index is left as it was.
\* Stated for the calls whose cache directory can be written.
C22_UpdatedIffGenerationDiffers ==
    (PassedVerification /\ upd.last.outcome # "Failed to write cache") =>
        IF GenerationDiffers
        THEN upd.last.outcome = "updated" /\ After.cached = upd.last.bytes.index
        ELSE upd.last.outcome = "unchanged" /\ After.cached = Before.cached

\* The report alone follows the generation timestamps.
C22_ReportFollowsGeneration ==
    (PassedVerification /\ upd.last.outcome # "Failed to write cache") =>
        (upd.last.outcome = "updated" <=> GenerationDiffers)

\* The call stored an index: it got to the assignments of repo.index and
\* save_cache, or the repository's index in memory or in the cache differs.
StoredIndex ==
    \/ upd.last.outcome \in {"updated", "unchanged", "Failed to write cache"}
    \/ After.index # Before.index
    \/ After.cached # Before.cached

\* C23: with allow_untrusted = false an index is stored, in memory or in the
\* cache, only if a signature envelope was fetched and verified over the
\* exact fetched index bytes with a key found in the master or packager key
\* directory; a missing signature, a missing key or a failed check each make
\* the repository's update fail.
C23_OnlyVerifiedIndexStored ==
    (Matching /\ ~upd.config.allow_untrusted) =>
        /\ StoredIndex =>
              /\ upd.last.signature.kind = "envelope"
              /\ upd.last.key \in upd.config.master_keys \cup upd.config.packager_keys
              /\ upd.last.signature.signer = upd.last.key
              /\ upd.last.signature.over = upd.last.bytes
        /\ (upd.last.bytes.fetched
              /\ \/ upd.last.signature.kind = "absent"
                 \/ /\ upd.last.signature.kind = "envelope"
                    /\ \/ upd.last.key = NoKey
                       \/ upd.last.signature.signer # upd.last.key
                       \/ upd.last.signature.over # upd.last.bytes)
            => upd.last.outcome \notin {"updated", "unchanged"}

\* An index was stored under allow_untrusted = false, its signature made by
\* a key of the packager directory.
C23_Witness ==
    /\ Matching
    /\ ~upd.config.allow_untrusted
    /\ upd.last.outcome = "updated"
    /\ upd.last.key \in upd.config.packager_keys
    /\ upd.last.key \notin upd.config.master_keys
    /\ After.cached = upd.last.bytes.index

(***************************************************************************)
(* Package lookup across repositories.                                     *)
(***************************************************************************)
\* The enabled repositories whose index has an entry of the name asked for.
Holders ==
    { i \in 1..Len(repos) : /\ repos[i].enabled
                             /\ repos[i].index.some
                             /\ \E k \in 1..Len(repos[i].index.packages) :
                                    repos[i].index.packages[k].name = cmd.found.name }

\* C24: find_package(name) returns the entry from the enabled repository of
\* the lowest numeric priority among the enabled repositories whose index
\* contains the name, never one from a disabled repository, and None when no
\* enabled repository has the name.
C24_FindPackageLowestPriority ==
    cmd.found.called =>
        IF Holders = {} THEN ~cmd.found.some
        ELSE /\ cmd.found.some
             /\ \E i \in Holders :
                   /\ repos[i].name = cmd.found.repository
                   /\ \E k \in 1..Len(repos[i].index.packages) :
                         /\ repos[i].index.packages[k].name = cmd.found.name
                         /\ cmd.found.package = << repos[i].index.packages[k] >>
                   /\ \A j \in Holders : repos[i].priority <= repos[j].priority

\* The name is in a disabled repository and in two enabled ones, of which
\* the configuration lists the one of higher priority number first.
C24_Witness ==
    /\ cmd.found.called
    /\ cmd.found.some
    /\ Cardinality(Holders) = 2
    /\ \E d \in 1..Len(repos) :
          /\ ~repos[d].enabled
          /\ repos[d].index.some
          /\ \E k \in 1..Len(repos[d].index.packages) :
                repos[d].index.packages[k].name = cmd.found.name
    /\ \E i, j \in Holders :
          repos[i].priority < repos[j].priority /\ repos[i].name = "testing"

(***************************************************************************)
(* The secret key file's permissions.                                      *)
(***************************************************************************)
\* Permission bit b (0 is others' execute, 8 the owner's read) of a mode.
HasBit(mode, b) == (mode \div (2 ^ b)) % 2 = 1

\* The mode grants a permission that 0600 does not: any of the owner's
\* execute, the group's or the others' bits.
LooserThan0600(mode) == \E b \in 0..8 : HasBit(mode, b) /\ b \notin {7, 8}

\* The mode is exactly rw-------.
Is0600(mode) == \A b \in 0..8 : HasBit(mode, b) <=> b \in {7, 8}

\* C28: load_signing_key fails with the insecure-permissions error, and
\* returns no key, whenever the secret key file's permission bits are looser
\* than 0600, and it loads a well-formed key file whose mode is 0600.
C28_InsecureKeyFileRefused ==
    (signing.loaded.called /\ signing.file.exists) =>
        /\ LooserThan0600(signing.file.mode) =>
              /\ ~signing.loaded.ok
              /\ signing.loaded.key = "none"
              /\ signing.loaded.error = "Signing key has insecure permissions"
        /\ (Is0600(signing.file.mode) /\ signing.file.content = "well-formed") =>
              signing.loaded.ok /\ signing.loaded.key = "secret"

\* A well-formed key file readable by the group was refused.
C28_Witness ==
    /\ signing.loaded.called
    /\ signing.file.exists
    /\ signing.file.content = "well-formed"
    /\ HasBit(signing.file.mode, 5)
    /\ HasBit(signing.file.mode, 7) /\ HasBit(signing.file.mode, 8)
    /\ ~signing.loaded.ok

(***************************************************************************)
(* Transaction identifiers.                                                *)
(***************************************************************************)
\* C29: any two transactions created on the same root, also by concurrent
\* processes, receive distinct IDs and so distinct directories, and the one
\* created later has the greater ID: the ID Transaction::new hands out is
\* greater than every ID handed out before.
C29_DistinctIncreasingIds ==
    [][\A p \in AllProcs :
          (tx[p].pc = "idle" /\ tx'[p].pc \in {"pending", "built"})
              => \A q \in AllProcs : tx[q].id < tx'[p].id]_vars

(***************************************************************************)
(* What execute returns.                                                   *)
(***************************************************************************)
\* execute returns Ok only with the state Completed, every queued operation
\* having been executed and none having returned an error.
C30_OkOnlyWhenAllSucceeded(p) ==
    (tx[p].pc # "done" /\ tx'[p].pc = "done" /\ tx'[p].result = "Ok") =>
        /\ tx'[p].state = "Completed"
        /\ tx'[p].executed = tx'[p].ops
        /\ tx'[p].err = NoErr

\* After an operation's error the next thing execute does is the rollback
\* over the journal, and it returns an error.
C30_ErrorRollsBack(p) ==
    (tx[p].pc = "op_failed" /\ tx'[p] # tx[p]) =>
        /\ tx'[p].pc = "done"
        /\ tx'[p].result = "Err"
        /\ tx'[p].state \in {"RolledBack", "Failed"}
        /\ \E bad \in 0..Len(tx[p].journal) :
              LET st == rollback(tx[p].journal, [fs |-> fs, db |-> db],
                                 txdirs[tx[p].id].backup, foreign_keys, bad)
              IN fs' = st.fs /\ db' = st.db

\* C30: execute returns Ok only if every queued operation succeeded and the
\* state is Completed; whenever an operation returns an error, rollback is
\* run over the journal before execute returns, and execute returns an error.
C30_ExecuteResult ==
    [][\A p \in Procs : C30_OkOnlyWhenAllSucceeded(p) /\ C30_ErrorRollsBack(p)]_vars

\* execute returned an error after an operation failed with a journal to
\* undo.
C30_Witness ==
    \E p \in Procs :
        /\ tx[p].pc = "done"
        /\ tx[p].result = "Err"
        /\ tx[p].err # NoErr
        /\ tx[p].state = "RolledBack"
        /\ Len(tx[p].journal) > 0

(***************************************************************************)
(* The database rows of a package.                                         *)
(***************************************************************************)
\* The file paths and the dependency names recorded for the package row r.
FileRowsOf(r) == { f.path : f \in { x \in db.files : x.package_id = r.id } }
DepRowsOf(r) == { d.depends_on : d \in { x \in db.deps : x.package_id = r.id } }

\* The package row r comes with every file row and every dependency row of
\* an archive of its name and version.
CompleteRows(r) ==
    \E a \in Archives :
        /\ Archive(a).name = r.name
        /\ Archive(a).version = r.version
        /\ { Archive(a).files[k].path : k \in 1..Len(Archive(a).files) } \subseteq FileRowsOf(r)
        /\ Archive(a).depends \subseteq DepRowsOf(r)

\* C25: the package row, the file rows and the dependency rows an Install
\* writes become visible as one unit: in no state, and so for no reader and
\* at no crash point, is the package row there without its complete set of
\* file and dependency rows.
C25_RowsAppearTogether == \A r \in db.packages : CompleteRows(r)

\* C26: after remove_package(name) has returned true, no file row and no
\* dependency row of that package remains, so that file_owner of each of its
\* former paths is None and the same paths can be added again.
C26_RemoveCascades ==
    [][\A n \in Pkgs :
          (HasPackage(db, n) /\ ~HasPackage(db', n)) =>
              LET gone == get_package(db, n)
              IN /\ \A f \in db'.files : f.package_id # gone.id
                 /\ \A d \in db'.deps : d.package_id # gone.id
                 /\ \A path \in FileRowsOf(gone) :
                       ~HasOwner(db', path) /\ CanAddFile(db', path)]_vars

(***************************************************************************)
(* The packages table as its callers see it.                               *)
(***************************************************************************)
\* The sequence lists its records by ascending name, each name once.
OrderedByName(list) ==
    \A i, j \in 1..Len(list) :
        i < j => \E a, b \in 1..Len(NameOrder) :
                    a < b /\ NameOrder[a] = list[i].name /\ NameOrder[b] = list[j].name

\* The records of a sequence.
Listing(list) == { list[k] : k \in 1..Len(list) }

Removing(p) == tx[p].pc = "rm_files"

NamesUninstalled(p) ==
    /\ tx[p].pc = "op"
    /\ tx[p].i <= Len(tx[p].ops)
    /\ CurOp(p).kind \in {"Remove", "Upgrade"}
    /\ ~HasPackage(db, CurOp(p).package)

\* C32: a Remove or Upgrade operation naming a package that has no installed
\* record fails with the not-installed error before any file, directory or
\* database row is modified and before any hook of that package is run.
C32_NotInstalledFailsFirst ==
    [][\A p \in Procs :
          (NamesUninstalled(p) /\ tx'[p] # tx[p]) =>
              /\ tx'[p].pc = "op_failed"
              /\ tx'[p].err.kind = "NotInstalled"
              /\ tx'[p].hooks = << >>
              /\ tx'[p].journal = tx[p].journal
              /\ fs' = fs /\ db' = db /\ scripts' = scripts]_vars

\* The same for Remove alone.
C32_RemoveNotInstalledFailsFirst ==
    [][\A p \in Procs :
          (NamesUninstalled(p) /\ CurOp(p).kind = "Remove" /\ tx'[p] # tx[p]) =>
              /\ tx'[p].pc = "op_failed"
              /\ tx'[p].err.kind = "NotInstalled"
              /\ tx'[p].hooks = << >>
              /\ tx'[p].journal = tx[p].journal
              /\ fs' = fs /\ db' = db /\ scripts' = scripts]_vars

(***************************************************************************)
(* Failing install hooks.                                                  *)
(***************************************************************************)
\* The last script run_script ran for the operation of process p.
LastHook(t) == IF t.hooks = << >> THEN "none" ELSE t.hooks[Len(t.hooks)].hook

\* do_install left through the ? of run_script for the hook h.
InstallHookFailed(t, h) ==
    /\ t.i \in 1..Len(t.ops)
    /\ t.ops[t.i].kind = "Install"
    /\ t.err.kind = "ScriptFailed"
    /\ LastHook(t) = h

\* The paths of the archive that do_install copied without finding anything
\* at the destination: no FileModified entry was journaled for them.
CreatedBy(t) ==
    LET ar == Archive(t.ops[t.i].archive)
    IN {ar.files[k].path : k \in DOMAIN ar.files} \
           {e.path : e \in {t.journal[k] : k \in DOMAIN t.journal}
                             \cap {FileModified(q, ar.name) : q \in Paths}}

\* pre_install exits nonzero: nothing is copied, no row is written.
PreInstallAborts(p) ==
    (tx[p].pc = "op" /\ InstallHookFailed(tx'[p], "pre_install")
       /\ tx'[p].pc = "op_failed") =>
        /\ fs' = fs /\ db' = db /\ scripts' = scripts
        /\ tx'[p].journal = tx[p].journal

\* The journal of t holds an entry of the given type for package n or path q:
\* an earlier operation of the transaction removed it.
RemovedEarlier(t, type, n, q) ==
    \E k \in DOMAIN t.journal :
        /\ t.journal[k].type = type
        /\ t.journal[k].pkg = n \/ t.journal[k].path = q

\* post_install exits nonzero: after the rollback the package has no row
\* and none of the files the install created exists.
PostInstallRolledBack(p) ==
    (tx[p].pc = "done" /\ InstallHookFailed(tx[p], "post_install")) =>
        /\ tx[p].state = "RolledBack"
        /\ ~HasPackage(db, tx[p].ops[tx[p].i].package)
        /\ \A q \in CreatedBy(tx[p]) : ~Exists(fs, q)

\* The same, but for what an earlier operation of the transaction removed.
PostInstallRolledBack_Restoring(p) ==
    (tx[p].pc = "done" /\ InstallHookFailed(tx[p], "post_install")) =>
        /\ tx[p].state = "RolledBack"
        /\ \/ ~HasPackage(db, tx[p].ops[tx[p].i].package)
           \/ RemovedEarlier(tx[p], "DbPackageRemoved", tx[p].ops[tx[p].i].package, "")
        /\ \A q \in CreatedBy(tx[p]) :
              ~Exists(fs, q) \/ RemovedEarlier(tx[p], "FileRemoved", "", q)

\* C33, as stated: a failing pre_install aborts the Install before any file
\* is copied and any row written; after a failing post_install the
\* transaction is rolled back, the package has no database record and none
\* of the files the install created remains.
C33_FailingInstallHooks ==
    [][\A p \in Procs : PreInstallAborts(p) /\ PostInstallRolledBack(p)']_vars

\* C33, amended: a failing pre_install aborts the Install before any file is
\* copied and any row written; after a failing post_install the transaction
\* is rolled back, and the package has a database record, or a file the
\* install created exists, only if an earlier operation of the same
\* transaction had removed it and the rollback put it back.
C33_FailingInstallHooksRestoring ==
    [][\A p \in Procs : PreInstallAborts(p) /\ PostInstallRolledBack_Restoring(p)']_vars

\* Installing foo from foo1 alone was rolled back after its post_install
\* failed: its two files were copied and are gone, and so is its row.
C33_Witness ==
    \E p \in Procs :
        /\ Ended(p, "RolledBack")
        /\ tx[p].ops = << OpInstall("foo1") >>
        /\ InstallHookFailed(tx[p], "post_install")
        /\ CreatedBy(tx[p]) = {"/etc/foo.conf", "/usr/bin/x"}
        /\ \E k \in DOMAIN tx[p].journal : tx[p].journal[k] = FileCreated("/usr/bin/x")
        /\ ~Exists(fs, "/usr/bin/x") /\ ~HasPackage(db, "foo")

(***************************************************************************)
(* The directories an Install creates.                                     *)
(***************************************************************************)
\* The directories that exist now and did not when transaction t began.
NewDirs(t) == {q \in Paths : IsDir(fs, q) /\ ~Exists(pre[t].fs, q)}

\* C34: every directory an Install creates under the root, each missing
\* ancestor of an installed file and not only its parent, has its own
\* DirCreated journal entry, so that after a rollback no directory exists
\* that did not exist before the transaction.
C34_EveryCreatedDirJournaled ==
    \A p \in Procs :
        /\ (Executing(p) /\ pre[tx[p].id].taken) =>
              \A q \in NewDirs(tx[p].id) :
                  \E k \in DOMAIN tx[p].journal : tx[p].journal[k] = DirCreated(q)
        /\ Ended(p, "RolledBack") => NewDirs(tx[p].id) = {}

(***************************************************************************)
(* Transactions resumed after a crash, and execute called again.           *)
(***************************************************************************)
Terminal == {"Completed", "RolledBack"}

\* Process p holds a Transaction made by resume from the directory a killed
\* process left InProgress, and its call of execute has returned.
ResumedAfterCrash(p) ==
    /\ tx[p].resumed
    /\ tx[p].pc = "done"
    /\ pre[tx[p].id].killed_at # "none"
    /\ ~pre[tx[p].id].recovered

\* C35: a transaction directory found InProgress after a crash can be
\* resumed and then driven to a terminal state, forward to Completed or
\* through rollback to RolledBack: once execute has returned on the resumed
\* transaction, its state, in memory and in the directory, is Completed or
\* RolledBack; it does not remain InProgress.
C35_ResumedReachesTerminal ==
    \A p \in Procs :
        ResumedAfterCrash(p) =>
            /\ tx[p].state \in Terminal
            /\ txdirs[tx[p].id].exists => txdirs[tx[p].id].state \in Terminal

\* Process p holds a Transaction that is not Pending and may call execute.
NotPending(p) ==
    /\ tx[p].pc \in {"pending", "built", "done", "resumed"}
    /\ tx[p].state # "Pending"

\* C36: execute called on a transaction whose state is not Pending (already
\* executed, or resumed in InProgress, Completed, RolledBack or Failed)
\* returns an error and changes neither the state, the journal, the
\* filesystem nor the database.
C36_ExecuteTwiceRefused ==
    [][\A p \in Procs :
          (NotPending(p) /\ tx'[p] # tx[p] /\ tx'[p].pc # "idle") =>
              /\ tx'[p].refused
              /\ tx'[p].pc = "done"
              /\ tx'[p].state = tx[p].state
              /\ tx'[p].journal = tx[p].journal
              /\ tx'[p].ops = tx[p].ops
              /\ UNCHANGED << fs, db, scripts, txdirs >>]_vars

\* execute was refused on a transaction resumed from the InProgress
\* directory of a killed process, which is InProgress still.
C36_Witness ==
    \E p \in Procs :
        /\ tx[p].refused /\ tx[p].resumed
        /\ tx[p].state = "InProgress"
        /\ pre[tx[p].id].killed_at # "none"
        /\ txdirs[tx[p].id].state = "InProgress"

\* execute was refused on a transaction that it had completed before.
C36_WitnessExecuted ==
    \E p \in Procs :
        tx[p].refused /\ ~tx[p].resumed /\ tx[p].state = "Completed"

(***************************************************************************)
(* What execute leaves when it returns.                                    *)
(***************************************************************************)
\* The call of execute that ran transaction tx[p] has returned.
Returned(p) == tx[p].pc = "done" /\ ~tx[p].refused /\ ~tx[p].resumed

\* The state in memory is final and state.toml, where the transaction
\* directory still exists, holds the same state.
StatesAgree(p) ==
    /\ tx[p].state \in {"Completed", "RolledBack", "Failed"}
    /\ txdirs[tx[p].id].exists => txdirs[tx[p].id].state = tx[p].state

\* C37: whenever execute returns, with Ok or with an error, the state in
\* memory and the state persisted in the transaction directory agree and are
\* one of Completed, RolledBack or Failed; and an error return never leaves
\* the operations' effects applied.
C37_ReturnLeavesFinalState ==
    \A p \in Procs :
        Returned(p) =>
            /\ StatesAgree(p)
            /\ tx[p].result = "Err" => Restored(tx[p].id)

\* The first half alone.
C37_StatesAgreeOnReturn == \A p \in Procs : Returned(p) => StatesAgree(p)

(***************************************************************************)
(* The backup files of a transaction.                                      *)
(***************************************************************************)
\* The backup files the journal of t refers to, named by package and path.
JournaledBackups(t) ==
    {<<t.journal[k].pkg, t.journal[k].path>> :
        k \in {j \in DOMAIN t.journal : t.journal[j].type \in {"FileModified", "FileRemoved"}}}

\* C38: within one transaction a backup file that a FileModified or
\* FileRemoved journal entry refers to is never overwritten by a later
\* operation on the same package and path: as long as the transaction
\* directory exists it holds the content it saved.
C38_BackupWrittenOnce ==
    [][\A p \in Procs :
          (Executing(p) /\ tx'[p].id = tx[p].id /\ txdirs'[tx[p].id].exists) =>
              \A b \in JournaledBackups(tx[p]) :
                  txdirs'[tx[p].id].backup[b] = txdirs[tx[p].id].backup[b]]_vars

(***************************************************************************)
(* The scripts kept under var/lib/rookpkg/scripts.                         *)
(***************************************************************************)
\* The archive a is the one the installed row r was made from.
MadeFrom(r, a) == Archive(a).name = r.name /\ Archive(a).version = r.version

\* Scripts are kept for installed packages only.
ScriptsOnlyForInstalled ==
    \A n \in Pkgs : scripts[n] # NoScripts => HasPackage(db, n)

\* Every installed package has the scripts its archive shipped.
InstalledKeepScripts ==
    \A r \in db.packages : \A a \in Archives :
        MadeFrom(r, a) =>
            \A h \in Archive(a).scripts : scripts[r.name].sh[h] = r.version

\* C39: after a transaction has reached Completed or RolledBack, persisted
\* hook scripts exist only for packages installed in the database, and every
\* installed package that shipped scripts still has them.
C39_ScriptsFollowDatabase ==
    \A p \in Procs :
        (Returned(p) /\ tx[p].state \in Terminal) =>
            ScriptsOnlyForInstalled /\ InstalledKeepScripts

(***************************************************************************)
(* The key a repository's index is verified with.                          *)
(***************************************************************************)
\* C40: the trust-store key used to verify a repository index has a
\* fingerprint exactly equal to the fingerprint the repository names; a key
\* whose fingerprint is a suffix of the named one, or of which the named one
\* is a suffix, is never selected, so no index is accepted under another
\* key than the one named.
C40_KeyHasNamedFingerprint ==
    (Matching /\ upd.last.key # NoKey) =>
        Fingerprint(upd.last.key) = upd.last.metadata.fingerprint

\* The second half alone: an index stored as updated was verified with the
\* key whose fingerprint the repository names.
C40_AcceptedUnderNamedKey ==
    (PassedVerification /\ upd.last.outcome = "updated") =>
        Fingerprint(upd.last.key) = upd.last.metadata.fingerprint

====
